---------------------------- MODULE Spec2Model ----------------------------
(***************************************************************************)
(* Model of the onboarding workflow of kvi291995/multimodel.               *)
(*                                                                         *)
(* Part 1: the supervised onboarding graph                                 *)
(*         (supervised_onboarding_with_llm.py): the supervisor, the four   *)
(*         stage nodes, the complete node, the router and the run driver   *)
(*         process_onboarding with its recursion limit.                    *)
(* Part 2: StateManager.save_state (state_manager.py) with the Redis cache *)
(*         and Pub/Sub side channel.                                       *)
(***************************************************************************)
EXTENDS Naturals, Integers, Sequences, FiniteSets, TLC

VARIABLES
    \* ---- process_onboarding / graph.invoke ----
    pc,               \* "idle" | "running" | "returned": position of process_onboarding
    node,             \* the node the graph executes next (END when the graph has ended)
    steps,            \* number of supersteps (node executions) of this graph.invoke
    result,           \* the dict process_onboarding returned (NoResult before it returns)
    \* ---- OnboardingState ----
    next_agent,
    signup_complete,
    company_complete,
    kyc_complete,
    bank_complete,
    task_complete,
    onboarding_id,
    \* ---- locals and history of the run ----
    llm_decision,     \* the advisory text the last supervisor execution received
    last_node,        \* the node executed by the previous superstep ("none" at the start)
    prev_sup,         \* the flag vector the previous supervisor execution read, and its choice
    first_ok,         \* the stages in the order of their first successful execution
    \* ---- StateManager / Redis ----
    redis_available,  \* REDIS_AVAILABLE: the cache modules could be imported
    pool,             \* StateManager._pool is not None
    cache_enabled,    \* StateManager._cache_enabled
    pubsub_enabled,   \* StateManager._pubsub_enabled
    now,              \* the clock read by datetime.now()
    chat_sessions,    \* chat_sessions table: session id -> row, or NoRow
    db,               \* onboarding_state table: session id -> row, or NoRow
    cache,            \* Redis key session:<id> -> cached state, or NoRow
    published,        \* the notifications delivered to the session_updates channels
    save_pc,          \* position inside the running save_state call
    save_arg,         \* (session id, state) arguments of the running save_state call
    save_log,         \* the steps the running / last save_state call performed, in order
    save_ret,         \* return value of the last save_state call ("none" while running)
    \* ---- callers of the StateManager (save, load, update, delete) ----
    calls,            \* caller -> the call it is executing or has last finished
    \* ---- entity_features, subgraphs and stage processors ----
    features,         \* entity_features table: session id -> row, or NoRow
    feat_call,        \* the last save_entity_feature call and its return value
    mig,              \* a raw record and what migrate_state made of it
    val,              \* ValidationState of the running validation_graph.invoke
    api,              \* APIState of the running api_graph.invoke
    proc,             \* the running / last stage processor call
    rclient           \* the RedisClient singleton and its running / last operation

graph_vars == <<pc, node, steps, result, next_agent, signup_complete, company_complete,
                kyc_complete, bank_complete, task_complete, onboarding_id,
                llm_decision, last_node, prev_sup, first_ok>>

store_vars == <<redis_available, pool, cache_enabled, pubsub_enabled, now,
                chat_sessions, db, cache, published,
                save_pc, save_arg, save_log, save_ret>>

mgr_vars == <<calls>>

proc_vars == <<features, feat_call, mig, val, api, proc, rclient>>

vars == <<graph_vars, store_vars, mgr_vars, proc_vars>>

----------------------------------------------------------------------------
(* constants.py                                                            *)

AGENT_SUPERVISOR == "supervisor"
AGENT_SIGNUP     == "signup"
AGENT_COMPANY    == "company"
AGENT_KYC        == "kyc"
AGENT_BANK       == "bank"
AGENT_COMPLETE   == "complete"
AGENT_END        == "end"

STATUS_IN_PROGRESS == "in_progress"
STATUS_COMPLETED   == "completed"
STATUS_ERROR       == "error"

\* langgraph.graph.END, the sentinel the router returns to stop the graph
END == "__end__"

\* config = {"recursion_limit": 50}
RecursionLimit == 50

Stages == {AGENT_SIGNUP, AGENT_COMPANY, AGENT_KYC, AGENT_BANK}

StageOrder == <<AGENT_SIGNUP, AGENT_COMPANY, AGENT_KYC, AGENT_BANK>>

\* The keys of the conditional-edge mapping installed on every node.
EdgeMap == {AGENT_SUPERVISOR, AGENT_SIGNUP, AGENT_COMPANY, AGENT_KYC, AGENT_BANK,
            AGENT_COMPLETE, END}

\* The advisory text is used only through the substring tests
\* `AGENT_X in llm_decision`; a text is therefore represented by the set of
\* agent names it contains.  The empty set is the text "" that _call_llm
\* returns after all its attempts failed (and any text naming no agent).
Keywords == {AGENT_SIGNUP, AGENT_COMPANY, AGENT_KYC, AGENT_BANK, AGENT_COMPLETE}

LLMTexts == SUBSET Keywords

\* What a stage processor (process_signup, ...) can do when the node calls it:
\* return success=True, return success=False, or raise.
Outcomes == {"success", "failure", "exception"}

NoResult == [status |-> "none"]

----------------------------------------------------------------------------
(* _supervisor_agent: the if / elif chain over the text and the flags.     *)

\* Variant: the flags are consulted for signup only; every later stage
\* needs its name in the text.
SupervisorDecisionNeedsText(has_signup, has_company, has_kyc, has_bank, llm) ==
    IF AGENT_SIGNUP \in llm \/ ~has_signup THEN AGENT_SIGNUP
    ELSE IF AGENT_COMPANY \in llm THEN AGENT_COMPANY
    ELSE IF AGENT_KYC \in llm THEN AGENT_KYC
    ELSE IF AGENT_BANK \in llm THEN AGENT_BANK
    ELSE IF AGENT_COMPLETE \in llm THEN AGENT_COMPLETE
    ELSE AGENT_END

\* Variant: the advisory text is consulted before any flag.
SupervisorDecisionTextFirst(has_signup, has_company, has_kyc, has_bank, llm) ==
    IF AGENT_COMPLETE \in llm THEN AGENT_COMPLETE
    ELSE IF AGENT_BANK \in llm THEN AGENT_BANK
    ELSE IF AGENT_KYC \in llm THEN AGENT_KYC
    ELSE IF AGENT_COMPANY \in llm THEN AGENT_COMPANY
    ELSE IF ~has_signup THEN AGENT_SIGNUP
    ELSE IF ~has_company THEN AGENT_COMPANY
    ELSE IF ~has_kyc THEN AGENT_KYC
    ELSE IF ~has_bank THEN AGENT_BANK
    ELSE AGENT_COMPLETE

\* Variant: a text naming "complete" is honoured before the stage tests.
SupervisorDecisionCompleteFirst(has_signup, has_company, has_kyc, has_bank, llm) ==
    IF AGENT_COMPLETE \in llm THEN AGENT_COMPLETE
    ELSE IF AGENT_SIGNUP \in llm \/ ~has_signup THEN AGENT_SIGNUP
    ELSE IF AGENT_COMPANY \in llm \/ (has_signup /\ ~has_company) THEN AGENT_COMPANY
    ELSE IF AGENT_KYC \in llm \/ (has_company /\ ~has_kyc) THEN AGENT_KYC
    ELSE IF AGENT_BANK \in llm \/ (has_kyc /\ ~has_bank) THEN AGENT_BANK
    ELSE AGENT_COMPLETE

\* Variant: the company and kyc branches of the chain are exchanged.
SupervisorDecisionSwapped(has_signup, has_company, has_kyc, has_bank, llm) ==
    IF AGENT_SIGNUP \in llm \/ ~has_signup THEN AGENT_SIGNUP
    ELSE IF AGENT_KYC \in llm \/ (has_company /\ ~has_kyc) THEN AGENT_KYC
    ELSE IF AGENT_COMPANY \in llm \/ (has_signup /\ ~has_company) THEN AGENT_COMPANY
    ELSE IF AGENT_BANK \in llm \/ (has_kyc /\ ~has_bank) THEN AGENT_BANK
    ELSE IF AGENT_COMPLETE \in llm
            \/ (has_signup /\ has_company /\ has_kyc /\ has_bank) THEN AGENT_COMPLETE
    ELSE AGENT_END

SupervisorDecision(has_signup, has_company, has_kyc, has_bank, llm) ==
    IF AGENT_SIGNUP \in llm \/ ~has_signup THEN AGENT_SIGNUP
    ELSE IF AGENT_COMPANY \in llm \/ (has_signup /\ ~has_company) THEN AGENT_COMPANY
    ELSE IF AGENT_KYC \in llm \/ (has_company /\ ~has_kyc) THEN AGENT_KYC
    ELSE IF AGENT_BANK \in llm \/ (has_kyc /\ ~has_bank) THEN AGENT_BANK
    ELSE IF AGENT_COMPLETE \in llm
            \/ (has_signup /\ has_company /\ has_kyc /\ has_bank) THEN AGENT_COMPLETE
    ELSE AGENT_END

\* Variant: the router without its task_complete test.
RouterNoEnd(na, tc) == na

\* _router
Router(na, tc) == IF tc THEN END ELSE na

Flags == <<signup_complete, company_complete, kyc_complete, bank_complete>>

----------------------------------------------------------------------------
(* The graph built by _build_graph and run by graph.invoke.                *)
(* One action is one superstep: the node's function, the merge of the dict *)
(* it returns into the state, and the conditional edge (_router) that      *)
(* picks the single node of the next superstep.                            *)

\* Marker for a route that is not a key of the conditional-edge mapping:
\* the branch lookup raises and graph.invoke propagates the exception.
BranchError == "__branch_error__"

Goto(route) == IF route \in EdgeMap THEN route ELSE BranchError

\* Variant: the ceiling test is off by one (one more superstep runs).
CanStepOffByOne(n) == pc = "running" /\ node = n /\ steps <= RecursionLimit

\* graph.invoke may execute a node: the graph has not ended and fewer than
\* recursion_limit supersteps have run.
CanStep(n) == pc = "running" /\ node = n /\ steps < RecursionLimit

\* History: the order in which the stages first succeeded.
NoteFirstOk(stage, ok) ==
    IF ok /\ \A i \in 1..Len(first_ok) : first_ok[i] # stage
    THEN Append(first_ok, stage)
    ELSE first_ok

\* process_onboarding, up to the call of graph.invoke: the initial state has
\* next_agent = "supervisor" and every other key at its class default; the
\* entry point is the supervisor.
ProcessOnboarding ==
    /\ pc = "idle"
    /\ pc' = "running"
    /\ node' = AGENT_SUPERVISOR
    /\ next_agent' = AGENT_SUPERVISOR
    /\ steps' = 0
    /\ UNCHANGED <<result, signup_complete, company_complete, kyc_complete,
                   bank_complete, task_complete, onboarding_id, llm_decision,
                   last_node, prev_sup, first_ok>>
    /\ UNCHANGED <<store_vars, mgr_vars, proc_vars>>

supervisor_agent ==
    /\ CanStep(AGENT_SUPERVISOR)
    /\ \E llm \in LLMTexts :
          LET choice == SupervisorDecision(signup_complete, company_complete,
                                           kyc_complete, bank_complete, llm)
          IN  /\ llm_decision' = llm
              /\ next_agent' = choice
              /\ prev_sup' = [flags |-> Flags, choice |-> choice]
              /\ node' = Goto(Router(choice, task_complete))
    /\ steps' = steps + 1
    /\ last_node' = AGENT_SUPERVISOR
    /\ UNCHANGED <<pc, result, signup_complete, company_complete, kyc_complete,
                   bank_complete, task_complete, onboarding_id, first_ok>>
    /\ UNCHANGED <<store_vars, mgr_vars, proc_vars>>

\* What every stage node does besides writing its own flag: next_agent is
\* set to "supervisor" and the router is evaluated on the merged state.
StageCommon(stage, ok) ==
    /\ next_agent' = AGENT_SUPERVISOR
    /\ node' = Goto(Router(AGENT_SUPERVISOR, task_complete))
    /\ steps' = steps + 1
    /\ last_node' = stage
    /\ llm_decision' = {}
    /\ first_ok' = NoteFirstOk(stage, ok)
    /\ UNCHANGED <<pc, result, task_complete, onboarding_id, prev_sup>>
    /\ UNCHANGED <<store_vars, mgr_vars, proc_vars>>

\* The flag a stage node returns: result.get('success', False) on the normal
\* path, False from the except branch.
NodeFlag(outcome) == outcome = "success"

signup_node ==
    /\ CanStep(AGENT_SIGNUP)
    /\ \E o \in Outcomes :
          /\ signup_complete' = NodeFlag(o)
          /\ StageCommon(AGENT_SIGNUP, NodeFlag(o))
    /\ UNCHANGED <<company_complete, kyc_complete, bank_complete>>

company_node ==
    /\ CanStep(AGENT_COMPANY)
    /\ \E o \in Outcomes :
          /\ company_complete' = NodeFlag(o)
          /\ StageCommon(AGENT_COMPANY, NodeFlag(o))
    /\ UNCHANGED <<signup_complete, kyc_complete, bank_complete>>

kyc_node ==
    /\ CanStep(AGENT_KYC)
    /\ \E o \in Outcomes :
          /\ kyc_complete' = NodeFlag(o)
          /\ StageCommon(AGENT_KYC, NodeFlag(o))
    /\ UNCHANGED <<signup_complete, company_complete, bank_complete>>

bank_node ==
    /\ CanStep(AGENT_BANK)
    /\ \E o \in Outcomes :
          /\ bank_complete' = NodeFlag(o)
          /\ StageCommon(AGENT_BANK, NodeFlag(o))
    /\ UNCHANGED <<signup_complete, company_complete, kyc_complete>>

\* The identifier f"ONB_{uuid4().hex[:8].upper()}", as an opaque token.
NewOnboardingId == "ONB_ID"

complete_node ==
    /\ CanStep(AGENT_COMPLETE)
    /\ task_complete' = TRUE
    /\ next_agent' = AGENT_END
    /\ onboarding_id' = NewOnboardingId
    /\ node' = Goto(Router(AGENT_END, TRUE))
    /\ steps' = steps + 1
    /\ last_node' = AGENT_COMPLETE
    /\ llm_decision' = {}
    /\ UNCHANGED <<pc, result, signup_complete, company_complete, kyc_complete,
                   bank_complete, prev_sup, first_ok>>
    /\ UNCHANGED <<store_vars, mgr_vars, proc_vars>>

\* Variant: graph.invoke also returns, with the state reached so far, when
\* the recursion limit is hit.
InvokeReturnAtLimit ==
    /\ pc = "running"
    /\ node = END \/ (node # BranchError /\ steps >= RecursionLimit)
    /\ result' = [status           |-> IF task_complete THEN STATUS_COMPLETED
                                                        ELSE STATUS_IN_PROGRESS,
                  onboarding_id    |-> onboarding_id,
                  signup_complete  |-> signup_complete,
                  company_complete |-> company_complete,
                  kyc_complete     |-> kyc_complete,
                  bank_complete    |-> bank_complete]
    /\ pc' = "returned"
    /\ UNCHANGED <<node, steps, next_agent, signup_complete, company_complete,
                   kyc_complete, bank_complete, task_complete, onboarding_id,
                   llm_decision, last_node, prev_sup, first_ok>>
    /\ UNCHANGED <<store_vars, mgr_vars, proc_vars>>

\* graph.invoke returned (the router answered END): process_onboarding
\* builds its normal result from the final state.
InvokeReturn ==
    /\ pc = "running"
    /\ node = END
    /\ result' = [status           |-> IF task_complete THEN STATUS_COMPLETED
                                                        ELSE STATUS_IN_PROGRESS,
                  onboarding_id    |-> onboarding_id,
                  signup_complete  |-> signup_complete,
                  company_complete |-> company_complete,
                  kyc_complete     |-> kyc_complete,
                  bank_complete    |-> bank_complete]
    /\ pc' = "returned"
    /\ UNCHANGED <<node, steps, next_agent, signup_complete, company_complete,
                   kyc_complete, bank_complete, task_complete, onboarding_id,
                   llm_decision, last_node, prev_sup, first_ok>>
    /\ UNCHANGED <<store_vars, mgr_vars, proc_vars>>

\* graph.invoke raised: recursion_limit supersteps have run and a node is
\* still due (GraphRecursionError), or the route was not a key of the edge
\* mapping.  process_onboarding's except branch builds the error result.
InvokeRaise ==
    /\ pc = "running"
    /\ node # END
    /\ node = BranchError \/ steps >= RecursionLimit
    /\ result' = [status |-> STATUS_ERROR,
                  error  |-> IF node = BranchError THEN "KeyError"
                                                   ELSE "GraphRecursionError"]
    /\ pc' = "returned"
    /\ UNCHANGED <<node, steps, next_agent, signup_complete, company_complete,
                   kyc_complete, bank_complete, task_complete, onboarding_id,
                   llm_decision, last_node, prev_sup, first_ok>>
    /\ UNCHANGED <<store_vars, mgr_vars, proc_vars>>

InitGraph ==
    /\ pc = "idle"
    /\ node = AGENT_SUPERVISOR
    /\ steps = 0
    /\ result = NoResult
    /\ next_agent = ""
    /\ signup_complete = FALSE
    /\ company_complete = FALSE
    /\ kyc_complete = FALSE
    /\ bank_complete = FALSE
    /\ task_complete = FALSE
    /\ onboarding_id = ""
    /\ llm_decision = {}
    /\ last_node = "none"
    /\ prev_sup = [flags |-> <<FALSE, FALSE, FALSE, FALSE>>, choice |-> "none"]
    /\ first_ok = <<>>

----------------------------------------------------------------------------
(* StateManager (state_manager.py) over PostgreSQL, with the Redis cache   *)
(* (redis_client.py) and the Pub/Sub channel (redis_pubsub.py).            *)

\* Bounds of the store model
MaxClock == 3

Sessions == {"s1", "s2"}

NoRow == [absent |-> TRUE]

NoArg == [session_id |-> "none", state |-> NoRow]

\* The callers of the StateManager: coroutines of one event loop, or
\* processes sharing the database and Redis.
AllCallers == {"c1", "c2"}

\* No caller is inside a StateManager call.
AllIdle == \A c \in AllCallers : calls[c].pc = "idle"

\* Python dict helpers
Has(d, k) == k \in DOMAIN d

Get(d, k, default) == IF k \in DOMAIN d THEN d[k] ELSE default

Put(d, k, v) == [x \in (DOMAIN d) \cup {k} |-> IF x = k THEN v ELSE d[x]]

\* The state dicts a caller hands to save_state: a bare one, and one that
\* already carries its version, creation time, status and entity id.
InputStates ==
    { [current_step |-> "signup"],
      [current_step |-> "kyc", status |-> "completed", entity_id |-> "E1",
       state_version |-> "1.0", created_at |-> 0] }

\* save_state, before the transaction: state_version and created_at are added
\* when missing and updated_at is stamped.
Stamp(state, t) ==
    LET s1 == IF Has(state, "state_version") THEN state
              ELSE Put(state, "state_version", "1.0")
        s2 == IF Has(s1, "created_at") THEN s1 ELSE Put(s1, "created_at", t)
    IN  Put(s2, "updated_at", t)

\* The row of the first UPSERT of save_state
ChatSessionRow(state, t) ==
    [entity_id    |-> Get(state, "entity_id", "None"),
     session_type |-> "onboarding",
     updated_at   |-> t]

\* The row of the second UPSERT of save_state
OnboardingStateRow(sid, state, t) ==
    [session_id   |-> sid,
     state_data   |-> state,
     current_step |-> Get(state, "current_step", "None"),
     status       |-> Get(state, "status", "active"),
     updated_at   |-> t]

\* The message publish_session_update builds for save_state
SessionUpdate(sid, state) ==
    [event        |-> "state_saved",
     session_id   |-> sid,
     current_step |-> Get(state, "current_step", "None")]

\* initialize without the early return on an existing pool: every call
\* decides the cache flags again
InitializeAgain ==
    /\ save_pc = "idle"
    /\ \E enable_cache \in BOOLEAN, pool_ok \in BOOLEAN, connected \in BOOLEAN :
          IF ~pool_ok THEN UNCHANGED <<pool, cache_enabled, pubsub_enabled>>
          ELSE /\ pool' = TRUE
               /\ cache_enabled' = (enable_cache /\ redis_available /\ connected)
               /\ pubsub_enabled' = (enable_cache /\ redis_available /\ connected)
    /\ UNCHANGED <<redis_available, now, chat_sessions, db, cache, published,
                   save_pc, save_arg, save_log, save_ret>>
    /\ UNCHANGED <<graph_vars, mgr_vars, proc_vars>>

\* StateManager.initialize: a second call returns at once; create_pool may
\* raise (nothing is set); the cache flags follow enable_cache, the import
\* of the Redis modules and the reachability probe is_connected().
Initialize ==
    /\ save_pc = "idle"
    /\ \E enable_cache \in BOOLEAN, pool_ok \in BOOLEAN, connected \in BOOLEAN :
          IF pool
          THEN UNCHANGED <<pool, cache_enabled, pubsub_enabled>>
          ELSE IF ~pool_ok
          THEN UNCHANGED <<pool, cache_enabled, pubsub_enabled>>
          ELSE /\ pool' = TRUE
               /\ cache_enabled' = (enable_cache /\ redis_available /\ connected)
               /\ pubsub_enabled' = (enable_cache /\ redis_available /\ connected)
    /\ UNCHANGED <<redis_available, now, chat_sessions, db, cache, published,
                   save_pc, save_arg, save_log, save_ret>>
    /\ UNCHANGED <<graph_vars, mgr_vars, proc_vars>>

\* StateManager.close
Close ==
    /\ save_pc = "idle"
    /\ AllIdle
    /\ pool
    /\ pool' = FALSE
    /\ UNCHANGED <<redis_available, cache_enabled, pubsub_enabled, now,
                   chat_sessions, db, cache, published,
                   save_pc, save_arg, save_log, save_ret>>
    /\ UNCHANGED <<graph_vars, mgr_vars, proc_vars>>

\* save_state is called: _ensure_initialized raises RuntimeError without a
\* pool; otherwise the state is stamped and the transaction is entered.
SaveStateCall ==
    /\ save_pc = "idle"
    /\ now < MaxClock
    /\ \E sid \in Sessions, state \in InputStates :
          IF ~pool
          THEN /\ save_ret' = "RuntimeError"
               /\ save_arg' = [session_id |-> sid, state |-> state]
               /\ UNCHANGED save_pc
          ELSE /\ save_ret' = "none"
               /\ save_arg' = [session_id |-> sid, state |-> Stamp(state, now)]
               /\ save_pc' = "txn"
    /\ save_log' = <<>>
    /\ now' = now + 1
    /\ UNCHANGED <<redis_available, pool, cache_enabled, pubsub_enabled,
                   chat_sessions, db, cache, published>>
    /\ UNCHANGED <<graph_vars, mgr_vars, proc_vars>>

\* Variant: a failed transaction is swallowed like a cache failure and the
\* call goes on to the cache and notification steps.
SaveStateTxnNoAbort ==
    /\ save_pc = "txn"
    /\ \E committed \in BOOLEAN :
          IF committed
          THEN /\ chat_sessions' =
                      [chat_sessions EXCEPT ![save_arg.session_id] =
                           ChatSessionRow(save_arg.state, save_arg.state.updated_at)]
               /\ db' = [db EXCEPT ![save_arg.session_id] =
                           OnboardingStateRow(save_arg.session_id, save_arg.state,
                                              save_arg.state.updated_at)]
               /\ save_log' = Append(save_log, "db_commit")
          ELSE /\ save_log' = Append(save_log, "db_fail")
               /\ UNCHANGED <<chat_sessions, db>>
    /\ save_pc' = "cache"
    /\ UNCHANGED <<redis_available, pool, cache_enabled, pubsub_enabled, now,
                   cache, published, save_arg, save_ret>>
    /\ UNCHANGED <<graph_vars, mgr_vars, proc_vars>>

\* The transaction of save_state: both UPSERTs commit together, or an
\* exception leaves both tables as they were and save_state returns False.
SaveStateTxn ==
    /\ save_pc = "txn"
    /\ \E committed \in BOOLEAN :
          IF committed
          THEN /\ chat_sessions' =
                      [chat_sessions EXCEPT ![save_arg.session_id] =
                           ChatSessionRow(save_arg.state, save_arg.state.updated_at)]
               /\ db' = [db EXCEPT ![save_arg.session_id] =
                           OnboardingStateRow(save_arg.session_id, save_arg.state,
                                              save_arg.state.updated_at)]
               /\ save_log' = Append(save_log, "db_commit")
               /\ save_pc' = "cache"
               /\ UNCHANGED save_ret
          ELSE /\ save_log' = Append(save_log, "db_fail")
               /\ save_pc' = "idle"
               /\ save_ret' = "False"
               /\ UNCHANGED <<chat_sessions, db>>
    /\ UNCHANGED <<redis_available, pool, cache_enabled, pubsub_enabled, now,
                   cache, published, save_arg>>
    /\ UNCHANGED <<graph_vars, mgr_vars, proc_vars>>

\* `if cls._cache_enabled: redis_client.cache_session(...)`: the write
\* reaches Redis or fails; a failure is swallowed.
SaveStateCache ==
    /\ save_pc = "cache"
    /\ \E written \in BOOLEAN :
          IF ~cache_enabled
          THEN UNCHANGED <<cache, save_log>>
          ELSE IF written
          THEN /\ cache' = [cache EXCEPT ![save_arg.session_id] = save_arg.state]
               /\ save_log' = Append(save_log, "cache_write")
          ELSE /\ save_log' = Append(save_log, "cache_fail")
               /\ UNCHANGED cache
    /\ save_pc' = "pubsub"
    /\ UNCHANGED <<redis_available, pool, cache_enabled, pubsub_enabled, now,
                   chat_sessions, db, published, save_arg, save_ret>>
    /\ UNCHANGED <<graph_vars, mgr_vars, proc_vars>>

\* Variant: a notification that could not be delivered fails the save.
SaveStatePublishStrict ==
    /\ save_pc = "pubsub"
    /\ \E delivered \in BOOLEAN :
          IF ~pubsub_enabled
          THEN /\ save_ret' = "True"
               /\ UNCHANGED <<published, save_log>>
          ELSE IF delivered
          THEN /\ published' = published \cup
                      {SessionUpdate(save_arg.session_id, save_arg.state)}
               /\ save_log' = Append(save_log, "publish")
               /\ save_ret' = "True"
          ELSE /\ save_log' = Append(save_log, "publish_fail")
               /\ save_ret' = "False"
               /\ UNCHANGED published
    /\ save_pc' = "idle"
    /\ UNCHANGED <<redis_available, pool, cache_enabled, pubsub_enabled, now,
                   chat_sessions, db, cache, save_arg>>
    /\ UNCHANGED <<graph_vars, mgr_vars, proc_vars>>

\* `if cls._pubsub_enabled: redis_pubsub.publish_session_update(...)`, then
\* `return True`: publish swallows its own failure and returns 0.
SaveStatePublish ==
    /\ save_pc = "pubsub"
    /\ \E delivered \in BOOLEAN :
          IF ~pubsub_enabled
          THEN UNCHANGED <<published, save_log>>
          ELSE IF delivered
          THEN /\ published' = published \cup
                      {SessionUpdate(save_arg.session_id, save_arg.state)}
               /\ save_log' = Append(save_log, "publish")
          ELSE /\ save_log' = Append(save_log, "publish_fail")
               /\ UNCHANGED published
    /\ save_pc' = "idle"
    /\ save_ret' = "True"
    /\ UNCHANGED <<redis_available, pool, cache_enabled, pubsub_enabled, now,
                   chat_sessions, db, cache, save_arg>>
    /\ UNCHANGED <<graph_vars, mgr_vars, proc_vars>>

InitStore ==
    /\ redis_available \in BOOLEAN
    /\ pool = FALSE
    /\ cache_enabled = FALSE
    /\ pubsub_enabled = FALSE
    /\ now = 1
    /\ chat_sessions = [s \in Sessions |-> NoRow]
    /\ db = [s \in Sessions |-> NoRow]
    /\ cache = [s \in Sessions |-> NoRow]
    /\ published = {}
    /\ save_pc = "idle"
    /\ save_arg = NoArg
    /\ save_log = <<>>
    /\ save_ret = "none"

----------------------------------------------------------------------------
(* Specifications                                                          *)

\* No caller has called the StateManager yet.
NoRet == [tag |-> "none", state |-> NoRow]

NoWrite == [kind |-> "none", sid |-> "none", state |-> NoRow]

IdleCall ==
    [op |-> "none", n |-> 0, pc |-> "idle", sid |-> "none", st |-> NoRow,
     upd |-> NoRow, ret |-> NoRet, log |-> <<>>, pre |-> NoRow, last_write |-> NoWrite]

InitCalls == calls = [c \in AllCallers |-> IdleCall]

\* No save_entity_feature call made yet
NoFeatCall ==
    [sid |-> "none", feature |-> "none",
     args |-> [entity_id |-> "None", user_email |-> "None", user_phone |-> "None",
               organization_name |-> "None"],
     ret |-> "none"]

\* No record handed to migrate_state yet
NoMig == [n |-> 0, x |-> NoRow, y |-> NoRow, z |-> NoRow]

\* No validation_graph.invoke running
NoVal == [node |-> "idle"]

\* No api_graph.invoke running
NoApi == [node |-> "idle"]

\* No stage processor called yet
NoProc ==
    [pc |-> "idle", stage |-> "none", input |-> <<>>, data |-> <<>>, result |-> <<>>,
     api_invocations |-> 0, flag |-> FALSE]

\* RedisClient() not constructed yet
NoRedisClient ==
    [pc |-> "absent", client |-> "None", op |-> "none", executions |-> 0,
     last_error |-> "none", out |-> [tag |-> "none", v |-> "none"]]

InitProc ==
    /\ features = [s \in Sessions |-> NoRow]
    /\ feat_call = NoFeatCall
    /\ mig = NoMig
    /\ val = NoVal
    /\ api = NoApi
    /\ proc = NoProc
    /\ rclient = NoRedisClient

Init == InitGraph /\ InitStore /\ InitCalls /\ InitProc

\* One run of process_onboarding
Next ==
    \/ ProcessOnboarding
    \/ supervisor_agent
    \/ signup_node
    \/ company_node
    \/ kyc_node
    \/ bank_node
    \/ complete_node
    \/ InvokeReturn
    \/ InvokeRaise

Spec == Init /\ [][Next]_vars

\* graph.invoke runs the graph to its end without pausing, and
\* process_onboarding then returns: every step that is due is taken.
FairSpec == Spec /\ WF_vars(Next)

\* The StateManager, one caller
NextStore ==
    \/ Initialize
    \/ Close
    \/ SaveStateCall
    \/ SaveStateTxn
    \/ SaveStateCache
    \/ SaveStatePublish

SpecStore == Init /\ [][NextStore]_vars

----------------------------------------------------------------------------
(* Properties of the supervised graph                                      *)

\* A superstep that executes the supervisor
SupervisorStep == last_node' = AGENT_SUPERVISOR /\ steps' = steps + 1

FlagOf(stage) ==
    CASE stage = AGENT_SIGNUP  -> signup_complete
      [] stage = AGENT_COMPANY -> company_complete
      [] stage = AGENT_KYC     -> kyc_complete
      [] stage = AGENT_BANK    -> bank_complete
      [] OTHER                 -> FALSE

\* Position of a stage in signup < company < kyc < bank < complete < end
Rank(a) ==
    CASE a = AGENT_SIGNUP   -> 1
      [] a = AGENT_COMPANY  -> 2
      [] a = AGENT_KYC      -> 3
      [] a = AGENT_BANK     -> 4
      [] a = AGENT_COMPLETE -> 5
      [] OTHER              -> 6

\* The transition rule of section 4.4 of the specification, over the flags
\* alone: the first stage whose flag is false, else complete.
FlagRule(has_signup, has_company, has_kyc, has_bank) ==
    IF ~has_signup THEN AGENT_SIGNUP
    ELSE IF ~has_company THEN AGENT_COMPANY
    ELSE IF ~has_kyc THEN AGENT_KYC
    ELSE IF ~has_bank THEN AGENT_BANK
    ELSE AGENT_COMPLETE

AllComplete == signup_complete /\ company_complete /\ kyc_complete /\ bank_complete

\* C1: router determinism.  Whenever the supervisor executes with the same
\* four completion flags as at its previous execution, it selects the same
\* next stage as then, whatever the advisory text of either execution is.
C1_RouterDeterminism ==
    [][(SupervisorStep /\ prev_sup.choice # "none" /\ prev_sup.flags = Flags)
          => next_agent' = prev_sup.choice]_vars

\* C2: no skipping.  The stage the supervisor has just selected is never
\* later in signup < company < kyc < bank < complete than the first stage
\* whose flag is false (complete when all four are true).
C2_NoSkipping ==
    last_node = AGENT_SUPERVISOR =>
        Rank(next_agent) <= Rank(FlagRule(signup_complete, company_complete,
                                          kyc_complete, bank_complete))

\* The advisory text names a later stage (bank) while company is the first
\* incomplete stage, and the supervisor has selected company.
C2_Witness ==
    /\ last_node = AGENT_SUPERVISOR
    /\ llm_decision = {AGENT_BANK, AGENT_COMPLETE}
    /\ signup_complete /\ ~company_complete
    /\ next_agent = AGENT_COMPANY

\* C3: no automatic re-entry.  The stage the supervisor has just selected is
\* never a stage whose completion flag is already true.
C3_NoReentry ==
    (last_node = AGENT_SUPERVISOR /\ next_agent \in Stages) => ~FlagOf(next_agent)

\* C4: completion flags are monotone.  No step of a run sets a completion
\* flag that is true back to false.
C4_FlagsMonotone ==
    [][/\ signup_complete => signup_complete'
       /\ company_complete => company_complete'
       /\ kyc_complete => kyc_complete'
       /\ bank_complete => bank_complete']_vars

\* C5: complete only when all four stages are done.  Whenever the complete
\* node is due or has run (task_complete set, an onboarding id issued), all
\* four completion flags are true.
C5_CompleteOnlyWhenAllDone ==
    (node = AGENT_COMPLETE \/ task_complete \/ onboarding_id # "") => AllComplete

\* A run that reached complete after at least one failed or repeated stage.
C5_Witness ==
    /\ task_complete
    /\ onboarding_id = NewOnboardingId
    /\ steps > 10
    /\ pc = "returned"

\* C6: termination.  At most RecursionLimit supersteps execute, and every
\* run of process_onboarding returns, with status completed or error.
C6_Terminates ==
    /\ [](steps <= RecursionLimit)
    /\ <>(pc = "returned" /\ result.status \in {STATUS_COMPLETED, STATUS_ERROR})

\* A run in which a stage never succeeds: aborted after the last superstep.
C6_Witness ==
    /\ pc = "returned"
    /\ steps = RecursionLimit
    /\ ~signup_complete
    /\ result.status = STATUS_ERROR

\* C7: a run that ends without reaching complete ended exactly at the step
\* ceiling, and its result has status error and carries the completion flags
\* the run had reached.
C7_AbortAtCeilingWithPartialState ==
    (pc = "returned" /\ ~task_complete) =>
        /\ steps = RecursionLimit
        /\ result.status = STATUS_ERROR
        /\ Has(result, "signup_complete") /\ result.signup_complete = signup_complete
        /\ Has(result, "company_complete") /\ result.company_complete = company_complete
        /\ Has(result, "kyc_complete") /\ result.kyc_complete = kyc_complete
        /\ Has(result, "bank_complete") /\ result.bank_complete = bank_complete

\* C8: complete is terminal and absorbing.  The complete node sets
\* task_complete and issues the identifier; once task_complete is true the
\* graph has ended (the router answered END although next_agent is "end")
\* and no node executes any more.
C8_CompleteAbsorbing ==
    /\ [](last_node = AGENT_COMPLETE => (task_complete /\ onboarding_id # ""))
    /\ [](task_complete => (node = END /\ next_agent = AGENT_END))
    /\ [][task_complete => (steps' = steps /\ last_node' = last_node)]_vars

C8_Witness ==
    /\ task_complete
    /\ last_node = AGENT_COMPLETE
    /\ next_agent = AGENT_END
    /\ pc = "returned"
    /\ result.status = STATUS_COMPLETED

IsPrefixOfStageOrder(seq) ==
    /\ Len(seq) <= Len(StageOrder)
    /\ \A i \in 1..Len(seq) : seq[i] = StageOrder[i]

\* A superstep that executes a stage node
StageStep == last_node' \in Stages /\ steps' = steps + 1

\* C9: stage order.  The first successful executions of the stages occur in
\* the order signup, company, kyc, bank, and all four precede complete; the
\* superstep before a stage node is a supervisor execution and so is the
\* superstep after it (the supervisor is due right after every stage node);
\* exactly one node is due at a time.
C9_StageOrder ==
    /\ [](IsPrefixOfStageOrder(first_ok))
    /\ []((node = AGENT_COMPLETE \/ task_complete) => first_ok = StageOrder)
    /\ []((pc = "running" /\ node \in Stages \cup {AGENT_COMPLETE})
             => last_node = AGENT_SUPERVISOR)
    /\ [](last_node \in Stages => node = AGENT_SUPERVISOR)
    /\ [](node \in EdgeMap)
    /\ [][StageStep => last_node = AGENT_SUPERVISOR]_vars
    /\ [][(last_node \in Stages /\ steps' = steps + 1)
             => last_node' = AGENT_SUPERVISOR]_vars
    /\ [](task_complete => last_node = AGENT_COMPLETE)

\* A completed run in which some stage was executed more than once.
C9_Witness ==
    /\ task_complete
    /\ first_ok = StageOrder
    /\ steps > 12

----------------------------------------------------------------------------
(* Properties of StateManager.save_state                                   *)

CacheEvents == {"cache_write", "cache_fail"}

PublishEvents == {"publish", "publish_fail"}

\* The steps of one save_state call are in write-through order.
LogInOrder ==
    \A i \in 1..Len(save_log) :
       /\ save_log[i] \in {"db_commit", "db_fail"} => i = 1
       /\ save_log[i] \in CacheEvents => (i = 2 /\ save_log[1] = "db_commit")
       /\ save_log[i] \in PublishEvents =>
             (i = Len(save_log) /\ i >= 2 /\ save_log[1] = "db_commit")

\* C10: write-through order of save_state.  The durable transaction comes
\* first; the cache is written only after that commit, with the committed
\* state; the notification is published only after the cache step; after a
\* failed durable write the call performs no cache write and no publish.
C10_WriteThroughOrder ==
    /\ [](LogInOrder)
    /\ [][cache' # cache =>
            /\ save_pc = "cache" /\ save_log = <<"db_commit">>
            /\ db[save_arg.session_id].state_data = save_arg.state
            /\ cache'[save_arg.session_id] = save_arg.state]_vars
    /\ [][published' # published =>
            /\ save_pc = "pubsub" /\ save_log[1] = "db_commit"
            /\ db[save_arg.session_id].state_data = save_arg.state]_vars
    /\ [][(save_pc = "txn" /\ save_ret' = "False") =>
            (save_pc' = "idle" /\ cache' = cache /\ published' = published)]_vars

\* A save that committed, then cached, then notified.
C10_Witness ==
    /\ save_ret = "True"
    /\ save_log = <<"db_commit", "cache_write", "publish">>
    /\ cache[save_arg.session_id] = db[save_arg.session_id].state_data

\* A save_state call has returned or raised.
SaveFinished == save_pc = "idle" /\ save_ret # "none"

\* C11: the result of save_state reflects only the durable outcome.  A
\* finished call returned True exactly when its transaction committed (and
\* the durable row then holds the state of the call), False exactly when
\* the transaction failed, whatever the cache write and the notification
\* did; nothing but the missing-pool RuntimeError is ever raised.
C11_ResultIsDurableOutcome ==
    SaveFinished =>
        /\ save_ret \in {"True", "False", "RuntimeError"}
        /\ save_ret = "True" <=> (Len(save_log) >= 1 /\ save_log[1] = "db_commit")
        /\ save_ret = "False" <=> save_log = <<"db_fail">>
        /\ save_ret = "RuntimeError" <=> save_log = <<>>
        /\ save_ret = "True" =>
              db[save_arg.session_id] =
                  OnboardingStateRow(save_arg.session_id, save_arg.state,
                                     save_arg.state.updated_at)

\* A save that committed and returned True although both the cache write
\* and the notification failed.
C11_Witness ==
    /\ SaveFinished
    /\ save_ret = "True"
    /\ save_log = <<"db_commit", "cache_fail", "publish_fail">>

----------------------------------------------------------------------------
(* StateManager: save_state, load_state, update_state and delete_state as  *)
(* called by the callers of AllCallers.  A step is one database            *)
(* transaction or one Redis operation together with the synchronous code   *)
(* around it; other callers may run between two steps of a call (every     *)
(* database operation is awaited).                                         *)

MgrSessions == {"s1"}

\* Calls a caller makes in a run
MaxCalls == 3

\* Calls the concurrent callers make in a run, together
MaxRaceCalls == 2

CallsMade == calls["c1"].n + calls["c2"].n

CanCall(c, max) == calls[c].pc = "idle" /\ CallsMade < max

\* The partial-field mappings handed to update_state
Updates ==
    { [current_step |-> "bank"],
      [status |-> "completed", entity_id |-> "E2"],
      [session_id |-> "s2"] }

\* A record written before state_version existed (legacy data)
LegacyState ==
    [session_id |-> "s1", current_step |-> "company",
     created_at |-> 0, updated_at |-> 0]

\* dict.update
Merge(d, u) ==
    [k \in (DOMAIN d) \cup (DOMAIN u) |-> IF k \in DOMAIN u THEN u[k] ELSE d[k]]

\* Variant: records at version 1.0 are rewritten to a next version.
MigrateUpgrading(state_data) ==
    LET version == Get(state_data, "state_version", "1.0")
    IN  IF version = "1.0" THEN Put(state_data, "state_version", "1.1")
        ELSE state_data

\* graph_state.migrate_state
Migrate(state_data) ==
    LET version == Get(state_data, "state_version", "1.0")
    IN  IF version = "1.0"
        THEN IF ~Has(state_data, "state_version")
             THEN Put(state_data, "state_version", "1.0")
             ELSE state_data
        ELSE state_data

\* Variant: the default of an absent record starts at the first stage.
DefaultStateFirstStage(sid, t) ==
    [state_version |-> "1.0", session_id |-> sid, current_step |-> AGENT_SIGNUP,
     status |-> "active", created_at |-> t, updated_at |-> t]

\* The default state load_state builds when it found no record (and, with
\* the same literal, in its except branch).
DefaultState(sid, t) ==
    [state_version |-> "1.0", session_id |-> sid, current_step |-> "welcome",
     status |-> "active", created_at |-> t, updated_at |-> t]

Ret(tag) == [tag |-> tag, state |-> NoRow]

Logged(call, event) == [call EXCEPT !.log = Append(@, event)]

\* What the manager actions leave alone
MgrFrame ==
    /\ UNCHANGED graph_vars
    /\ UNCHANGED proc_vars
    /\ UNCHANGED <<redis_available, pool, cache_enabled, pubsub_enabled,
                   save_pc, save_arg, save_log, save_ret>>

\* Clock values the callers see
MaxMgrClock == 2

\* The clock advances.
Tick ==
    /\ now < MaxMgrClock
    /\ now' = now + 1
    /\ UNCHANGED <<chat_sessions, db, cache, published, calls>>
    /\ MgrFrame

\* A call begins: the record of the caller is reset.
NewCall(c, op, sid, upd) ==
    [op |-> op, n |-> calls[c].n + 1, pc |-> "idle", sid |-> sid, st |-> NoRow,
     upd |-> upd,
     ret |-> NoRet, log |-> <<>>, pre |-> db[sid],
     last_write |-> IF op = "load" THEN calls[c].last_write ELSE NoWrite]

\* save_state is called: RuntimeError without a pool, else the state is
\* stamped with the current time and the transaction is entered.
SaveCall(c, SS, max) ==
    /\ CanCall(c, max)
    /\ \E sid \in SS, state \in InputStates :
          LET call == NewCall(c, "save", sid, NoRow)
          IN  calls' = [calls EXCEPT ![c] =
                 IF ~pool
                 THEN [call EXCEPT !.st = state, !.ret = Ret("RuntimeError")]
                 ELSE [call EXCEPT !.st = Stamp(state, now), !.pc = "txn"]]
    /\ UNCHANGED <<now, chat_sessions, db, cache, published>>
    /\ MgrFrame

\* Variant: the two UPSERTs run without a transaction, so that a failure of
\* the second leaves the first applied.
SaveTxnNotAtomic(c) ==
    /\ calls[c].pc = "txn"
    /\ LET call == calls[c]
       IN  \E committed \in BOOLEAN :
              /\ chat_sessions' = [chat_sessions EXCEPT ![call.sid] =
                                      ChatSessionRow(call.st, call.st.updated_at)]
              /\ IF committed
                 THEN /\ db' = [db EXCEPT ![call.sid] =
                                   OnboardingStateRow(call.sid, call.st,
                                                      call.st.updated_at)]
                      /\ calls' = [calls EXCEPT ![c] =
                                      [Logged(call, "db_commit") EXCEPT !.pc = "cache"]]
                 ELSE /\ calls' = [calls EXCEPT ![c] =
                                      [Logged(call, "db_fail") EXCEPT
                                          !.pc = "idle", !.ret = Ret("False")]]
                      /\ UNCHANGED db
    /\ UNCHANGED <<now, cache, published>>
    /\ MgrFrame

\* The transaction of save_state (also the save at the end of update_state):
\* both UPSERTs commit together, or neither is applied and False is returned.
SaveTxn(c) ==
    /\ calls[c].pc = "txn"
    /\ LET call == calls[c]
       IN  \E committed \in BOOLEAN :
              IF committed
              THEN /\ chat_sessions' = [chat_sessions EXCEPT ![call.sid] =
                                           ChatSessionRow(call.st, call.st.updated_at)]
                   /\ db' = [db EXCEPT ![call.sid] =
                                OnboardingStateRow(call.sid, call.st,
                                                   call.st.updated_at)]
                   /\ calls' = [calls EXCEPT ![c] =
                                   [Logged(call, "db_commit") EXCEPT !.pc = "cache"]]
              ELSE /\ calls' = [calls EXCEPT ![c] =
                                   [Logged(call, "db_fail") EXCEPT
                                       !.pc = "idle", !.ret = Ret("False")]]
                   /\ UNCHANGED <<chat_sessions, db>>
    /\ UNCHANGED <<now, cache, published>>
    /\ MgrFrame

\* The cache write of save_state, and the notification with the return: no
\* database operation is awaited between them.
SaveCacheAndPublish(c) ==
    /\ calls[c].pc = "cache"
    /\ LET call == calls[c]
       IN  \E written \in BOOLEAN, delivered \in BOOLEAN :
              LET c1 == IF ~cache_enabled THEN call
                        ELSE Logged(call, IF written THEN "cache_write"
                                                     ELSE "cache_fail")
                  c2 == IF ~pubsub_enabled THEN c1
                        ELSE Logged(c1, IF delivered THEN "publish"
                                                     ELSE "publish_fail")
              IN  /\ cache' = IF cache_enabled /\ written
                              THEN [cache EXCEPT ![call.sid] = call.st]
                              ELSE cache
                  /\ published' = IF pubsub_enabled /\ delivered
                                  THEN published \cup {SessionUpdate(call.sid, call.st)}
                                  ELSE published
                  /\ calls' = [calls EXCEPT ![c] =
                        [c2 EXCEPT !.pc = "idle", !.ret = Ret("True"),
                                   !.last_write =
                                       IF call.op = "save"
                                       THEN [kind |-> "save", sid |-> call.sid,
                                             state |-> call.st]
                                       ELSE NoWrite]]
    /\ UNCHANGED <<now, chat_sessions, db>>
    /\ MgrFrame

\* load_state has its value x at time t.  Called directly it returns x;
\* inside update_state the updates are merged over x, updated_at is set and
\* save_state is entered (which stamps the state again).
LoadDone(call, x, t) ==
    IF call.op = "update"
    THEN [call EXCEPT !.st = Stamp(Put(Merge(x, call.upd), "updated_at", t), t),
                      !.pc = "txn"]
    ELSE [call EXCEPT !.st = x, !.ret = [tag |-> "state", state |-> x],
                      !.pc = "idle"]

\* Variant: the cache is consulted whatever _cache_enabled says.
BeginLoadAlwaysCache(c, op, sid, upd) ==
    LET call == NewCall(c, op, sid, upd)
    IN  \E answered \in BOOLEAN :
           calls' = [calls EXCEPT ![c] =
              IF ~pool
              THEN [call EXCEPT !.ret = Ret(IF op = "update" THEN "False"
                                                             ELSE "RuntimeError")]
              ELSE IF answered /\ cache[sid] # NoRow
              THEN LoadDone(Logged(call, "cache_hit"), Migrate(cache[sid]), now)
              ELSE [Logged(call, IF answered THEN "cache_miss" ELSE "cache_error")
                       EXCEPT !.pc = "db_read"]]

\* load_state up to its first database operation: _ensure_initialized (the
\* RuntimeError is turned into False by update_state), then the cache read
\* when the cache is enabled; a hit ends the load.
BeginLoad(c, op, sid, upd) ==
    LET call == NewCall(c, op, sid, upd)
    IN  \E answered \in BOOLEAN :
           calls' = [calls EXCEPT ![c] =
              IF ~pool
              THEN [call EXCEPT !.ret = Ret(IF op = "update" THEN "False"
                                                             ELSE "RuntimeError")]
              ELSE IF ~cache_enabled
              THEN [call EXCEPT !.pc = "db_read"]
              ELSE IF answered /\ cache[sid] # NoRow
              THEN LoadDone(Logged(call, "cache_hit"), Migrate(cache[sid]), now)
              ELSE [Logged(call, IF answered THEN "cache_miss" ELSE "cache_error")
                       EXCEPT !.pc = "db_read"]]

LoadCall(c, SS, max) ==
    /\ CanCall(c, max)
    /\ \E sid \in SS : BeginLoad(c, "load", sid, NoRow)
    /\ UNCHANGED <<now, chat_sessions, db, cache, published>>
    /\ MgrFrame

UpdateCall(c, SS, max) ==
    /\ CanCall(c, max)
    /\ \E sid \in SS, upd \in Updates : BeginLoad(c, "update", sid, upd)
    /\ UNCHANGED <<now, chat_sessions, db, cache, published>>
    /\ MgrFrame

\* The SELECT of load_state: a row is migrated (and then cached); no row
\* gives the default state; an exception gives the same default state.
LoadDbRead(c) ==
    /\ calls[c].pc = "db_read"
    /\ LET call == calls[c]
       IN  \E ok \in BOOLEAN :
              calls' = [calls EXCEPT ![c] =
                 IF ~ok
                 THEN LoadDone(Logged(call, "db_read_fail"),
                               DefaultState(call.sid, now), now)
                 ELSE IF db[call.sid] = NoRow
                 THEN LoadDone(Logged(call, "db_absent"),
                               DefaultState(call.sid, now), now)
                 ELSE [Logged(call, "db_found") EXCEPT
                          !.st = Migrate(db[call.sid].state_data), !.pc = "fill"]]
    /\ UNCHANGED <<now, chat_sessions, db, cache, published>>
    /\ MgrFrame

\* `if cls._cache_enabled: redis_client.cache_session(...)` of load_state,
\* and its return.
LoadCacheFill(c) ==
    /\ calls[c].pc = "fill"
    /\ LET call == calls[c]
       IN  \E written \in BOOLEAN :
              /\ cache' = IF cache_enabled /\ written
                          THEN [cache EXCEPT ![call.sid] = call.st]
                          ELSE cache
              /\ calls' = [calls EXCEPT ![c] =
                    LoadDone(IF ~cache_enabled THEN call
                             ELSE Logged(call, IF written THEN "cache_write"
                                                          ELSE "cache_fail"),
                             call.st, now)]
    /\ UNCHANGED <<now, chat_sessions, db, published>>
    /\ MgrFrame

\* delete_state up to the end of its transaction: both DELETEs commit
\* together, or an exception leaves both tables and False is returned.
DeleteCall(c, SS, max) ==
    /\ CanCall(c, max)
    /\ \E sid \in SS, committed \in BOOLEAN :
          LET call == NewCall(c, "delete", sid, NoRow)
          IN  IF ~pool
              THEN /\ calls' = [calls EXCEPT ![c] =
                                   [call EXCEPT !.ret = Ret("RuntimeError")]]
                   /\ UNCHANGED <<chat_sessions, db>>
              ELSE IF committed
              THEN /\ db' = [db EXCEPT ![sid] = NoRow]
                   /\ chat_sessions' = [chat_sessions EXCEPT ![sid] = NoRow]
                   /\ calls' = [calls EXCEPT ![c] =
                                   [Logged(call, "db_delete") EXCEPT !.pc = "evict"]]
              ELSE /\ calls' = [calls EXCEPT ![c] =
                                   [Logged(call, "db_fail") EXCEPT
                                       !.ret = Ret("False")]]
                   /\ UNCHANGED <<chat_sessions, db>>
    /\ UNCHANGED <<now, cache, published>>
    /\ MgrFrame

\* `if cls._cache_enabled: redis_client.delete(...)` of delete_state, and
\* `return True`: a failed eviction is swallowed.
DeleteEvict(c) ==
    /\ calls[c].pc = "evict"
    /\ LET call == calls[c]
       IN  \E evicted \in BOOLEAN :
              /\ cache' = IF cache_enabled /\ evicted
                          THEN [cache EXCEPT ![call.sid] = NoRow]
                          ELSE cache
              /\ calls' = [calls EXCEPT ![c] =
                    [(IF ~cache_enabled THEN call
                      ELSE Logged(call, IF evicted THEN "cache_evict"
                                                   ELSE "cache_evict_fail"))
                       EXCEPT !.pc = "idle", !.ret = Ret("True"),
                              !.last_write = [kind |-> "delete", sid |-> call.sid,
                                              state |-> NoRow]]]
    /\ UNCHANGED <<now, chat_sessions, db, published>>
    /\ MgrFrame

\* The tables hold nothing, or the legacy record of session s1.
InitTables ==
    /\ InitGraph
    /\ InitCalls
    /\ InitProc
    /\ now = 1
    /\ \E legacy \in BOOLEAN :
          /\ chat_sessions =
                [s \in Sessions |-> IF legacy /\ s = "s1"
                                    THEN ChatSessionRow(LegacyState, 0) ELSE NoRow]
          /\ db = [s \in Sessions |-> IF legacy /\ s = "s1"
                                      THEN OnboardingStateRow(s, LegacyState, 0)
                                      ELSE NoRow]
    /\ cache = [s \in Sessions |-> NoRow]
    /\ published = {}
    /\ save_pc = "idle"
    /\ save_arg = NoArg
    /\ save_log = <<>>
    /\ save_ret = "none"

InitMgr ==
    /\ InitTables
    /\ redis_available \in BOOLEAN
    /\ pool = FALSE
    /\ cache_enabled = FALSE
    /\ pubsub_enabled = FALSE

\* One caller using the four operations, one after the other, from the
\* construction of the manager to its close
NextManager ==
    \/ Initialize
    \/ Tick
    \/ SaveCall("c1", MgrSessions, MaxCalls)
    \/ SaveTxn("c1")
    \/ SaveCacheAndPublish("c1")
    \/ LoadCall("c1", MgrSessions, MaxCalls)
    \/ UpdateCall("c1", MgrSessions, MaxCalls)
    \/ LoadDbRead("c1")
    \/ LoadCacheFill("c1")
    \/ DeleteCall("c1", MgrSessions, MaxCalls)
    \/ DeleteEvict("c1")

SpecManager == InitMgr /\ [][NextManager]_vars

\* Two callers saving and updating the same session concurrently, the
\* manager being initialized
InitConcurrent ==
    /\ InitTables
    /\ pool = TRUE
    /\ \E reachable \in BOOLEAN :
          /\ redis_available = reachable
          /\ cache_enabled = reachable
          /\ pubsub_enabled = reachable

NextConcurrent ==
    \/ Tick
    \/ \E c \in AllCallers :
          \/ SaveCall(c, MgrSessions, MaxRaceCalls)
          \/ UpdateCall(c, MgrSessions, MaxRaceCalls)
          \/ LoadDbRead(c)
          \/ LoadCacheFill(c)
          \/ SaveTxn(c)
          \/ SaveCacheAndPublish(c)

SpecConcurrent == InitConcurrent /\ [][NextConcurrent]_vars

----------------------------------------------------------------------------
(* Properties of the StateManager operations                               *)

Finished(c, op) ==
    /\ calls[c].op = op
    /\ calls[c].pc = "idle"

Returned(c, op, tag) == Finished(c, op) /\ calls[c].ret.tag = tag

CacheReads == {"cache_hit", "cache_miss", "cache_error"}
DbReads == {"db_found", "db_absent", "db_read_fail"}
CacheWrites == {"cache_write", "cache_fail"}

\* The read path of a load_state call that returned a state, the default of
\* an absent record having current_step = first_step.
LoadPath(first_step) ==
    \A c \in AllCallers :
       Returned(c, "load", "state") =>
          LET call == calls[c]
              log == call.log
              got == call.ret.state
          IN  /\ Len(log) >= 1
              /\ (log[1] \in CacheReads) <=> cache_enabled
              /\ log[1] = "cache_hit" =>
                    /\ Len(log) = 1
                    /\ got = Migrate(cache[call.sid])
              /\ log[1] # "cache_hit" =>
                    /\ \E i \in 1..Len(log) : log[i] \in DbReads
                    /\ \A i \in 1..Len(log) :
                          log[i] \in DbReads => \A j \in 1..(i - 1) : log[j] \in CacheReads
              /\ log[Len(log)] = "db_absent" =>
                    /\ call.pre = NoRow
                    /\ got.status = "active"
                    /\ got.current_step = first_step
              /\ (\E i \in 1..Len(log) : log[i] = "db_found") =>
                    /\ call.pre # NoRow
                    /\ got = Migrate(call.pre.state_data)
                    /\ cache_enabled <=> log[Len(log)] \in CacheWrites
                    /\ log[Len(log)] = "cache_write" => cache[call.sid] = got

\* C12 as stated: load_state consults the cache first only when it is
\* enabled, a hit returns the migrated cached record without a database
\* read, otherwise the database is read, a present record is migrated,
\* returned and cached (best effort), and an absent record yields a default
\* session with status active and current_step = the first stage.
C12_LoadPathFirstStage == LoadPath(StageOrder[1])

\* C12 amended: the same read path, the default session of an absent record
\* having status active and current_step 'welcome'.
C12_LoadPathWelcome == LoadPath("welcome")

C12_Witness ==
    /\ Returned("c1", "load", "state")
    /\ calls["c1"].log = <<"cache_miss", "db_absent">>
    /\ calls["c1"].ret.state.current_step = "welcome"

InLog(call, events) == \E i \in 1..Len(call.log) : call.log[i] \in events

DbFailures == {"db_fail", "db_read_fail"}

\* C13: a load_state that follows a successful save_state of the session
\* returns migrate(the state saved), whatever the cache write of that save
\* did.  (Loads whose own database read raised are left out: see C17.)
C13_RoundTrip ==
    \A c \in AllCallers :
       LET call == calls[c]
       IN  ( /\ Returned(c, "load", "state")
             /\ call.last_write.kind = "save"
             /\ call.last_write.sid = call.sid
             /\ ~InLog(call, DbFailures) )
           => call.ret.state = Migrate(call.last_write.state)

\* The record update_state found stored when it was called
StoredBefore(call) == call.pre.state_data

\* C14: after a successful update_state(id, partial) of a stored session,
\* the stored session has every key of partial at partial's value, every
\* other key of the previously stored session unchanged except updated_at,
\* and updated_at not earlier than before.  (Updates whose database read
\* raised are left out: see C17 and C18.)
C14_ShallowMerge ==
    \A c \in AllCallers :
       LET call == calls[c]
       IN  ( /\ Returned(c, "update", "True")
             /\ call.pre # NoRow
             /\ ~InLog(call, DbFailures) )
           => LET old == StoredBefore(call)
                  new == db[call.sid].state_data
              IN  /\ \A k \in DOMAIN call.upd : Has(new, k) /\ new[k] = call.upd[k]
                  /\ \A k \in (DOMAIN old) \ ((DOMAIN call.upd) \cup {"updated_at"}) :
                        Has(new, k) /\ new[k] = old[k]
                  /\ new.updated_at >= old.updated_at

\* C15: a load_state that follows a successful delete_state of the session
\* returns a fresh default session, whatever the eviction did.
C15_DeleteThenLoadIsFresh ==
    \A c \in AllCallers :
       LET call == calls[c]
       IN  ( /\ Returned(c, "load", "state")
             /\ call.last_write.kind = "delete"
             /\ call.last_write.sid = call.sid )
           => call.ret.state = DefaultState(call.sid, call.ret.state.updated_at)

CacheEvents2 ==
    CacheReads \cup CacheWrites \cup {"cache_evict", "cache_evict_fail"}

NotifyEvents == {"publish", "publish_fail"}

\* The flags are written by the step of initialize that creates the pool,
\* and by no other step.
FlagsSetOnlyByInitialize ==
    (cache_enabled' # cache_enabled \/ pubsub_enabled' # pubsub_enabled)
        => (~pool /\ pool' /\ calls' = calls)

\* With a pool, whose cache was not enabled, a step touches neither the
\* cache nor the channel, and no call ends in an exception.
DegradedStep ==
    (pool /\ ~cache_enabled) =>
        /\ cache' = cache
        /\ published' = published
        /\ \A c \in AllCallers :
              calls'[c] # calls[c] =>
                 /\ calls'[c].ret.tag # "RuntimeError"
                 /\ ~InLog(calls'[c], CacheEvents2 \cup NotifyEvents)

\* Without the cache, a save whose transaction committed returns True with
\* the record stored, and a load whose SELECT answered returns the stored
\* record (migrated) or the default.
DegradedResults ==
    ~cache_enabled =>
       \A c \in AllCallers :
          LET call == calls[c]
          IN  /\ (Finished(c, "save") /\ call.log = <<"db_commit">>) =>
                    /\ call.ret.tag = "True"
                    /\ db[call.sid].state_data = call.st
              /\ (Finished(c, "load") /\ call.log = <<"db_found">>) =>
                    /\ call.ret.tag = "state"
                    /\ call.ret.state = Migrate(db[call.sid].state_data)
              /\ (Finished(c, "load") /\ call.log = <<"db_absent">>) =>
                    call.ret.tag = "state"

\* C16: cache_enabled and pubsub_enabled are computed in initialize and
\* changed by no save, load, update or delete; when the probe failed at
\* initialization no later operation reads or writes the cache or publishes,
\* and save_state and load_state still succeed through the database with no
\* exception reaching the caller.
C16_CacheHealthDecidedOnce ==
    /\ [][FlagsSetOnlyByInitialize]_vars
    /\ [][DegradedStep]_vars
    /\ []DegradedResults

C16_Witness ==
    /\ pool
    /\ ~cache_enabled
    /\ redis_available
    /\ Returned("c1", "load", "state")
    /\ calls["c1"].log = <<"db_found">>
    /\ calls["c1"].last_write.kind = "save"

\* C17: when the database fails, save_state, update_state and delete_state
\* return False and load_state does not return a state.
C17_DurableFailureSurfaced ==
    \A c \in AllCallers :
       LET call == calls[c]
       IN  (call.pc = "idle" /\ InLog(call, DbFailures)) =>
              /\ call.op \in {"save", "update", "delete"} => call.ret.tag = "False"
              /\ call.op = "load" => call.ret.tag # "state"

\* C18: an update_state one of whose database steps failed (the SELECT of
\* its load included) leaves the record of the session as it was when the
\* call began.
C18_FailedUpdateKeepsRecord ==
    \A c \in AllCallers :
       ( /\ Finished(c, "update")
         /\ InLog(calls[c], DbFailures)
         /\ calls[c].pre # NoRow )
       => db[calls[c].sid] = calls[c].pre

\* The two rows of a session are those of one save of one whole state.
RowsOfOneSave ==
    \A sid \in Sessions :
       /\ db[sid] = NoRow <=> chat_sessions[sid] = NoRow
       /\ db[sid] # NoRow =>
             /\ db[sid] = OnboardingStateRow(sid, db[sid].state_data,
                                             db[sid].state_data.updated_at)
             /\ chat_sessions[sid] = ChatSessionRow(db[sid].state_data,
                                                    db[sid].updated_at)

\* A step that changes a row of a session is the commit of one caller's
\* transaction and leaves the whole state of that caller as the record.
LastCommitWins ==
    \A sid \in Sessions :
       (db'[sid] # db[sid] \/ chat_sessions'[sid] # chat_sessions[sid]) =>
          \E c \in AllCallers :
             /\ calls[c].pc = "txn"
             /\ calls[c].sid = sid
             /\ calls'[c].pc = "cache"
             /\ db'[sid].state_data = calls[c].st
             /\ calls[c].op = "update" =>
                   \A k \in DOMAIN calls[c].upd :
                      db'[sid].state_data[k] = calls[c].upd[k]

\* C19: interleaved update_state (and save_state) calls on one session are
\* last-write-wins and atomic per save: the chat_sessions row and the
\* onboarding_state row are written together, the record is the whole
\* merged state of the save that committed last, and no record mixing two
\* saves is observable.
C19_LastWriteWinsAtomic ==
    /\ []RowsOfOneSave
    /\ [][LastCommitWins]_vars

\* Two updates that both loaded before either committed: the later commit
\* is the record, the earlier caller's field is not in it.
C19_Witness ==
    /\ Returned("c1", "update", "True")
    /\ Returned("c2", "update", "True")
    /\ calls["c1"].upd = [current_step |-> "bank"]
    /\ calls["c2"].upd = [status |-> "completed", entity_id |-> "E2"]
    /\ db["s1"].state_data = calls["c2"].st
    /\ db["s1"].state_data.current_step # "bank"

\* C20: the updated_at of the stored record of a session never decreases.
C20_UpdatedAtMonotone ==
    [][\A sid \in Sessions :
          (db[sid] # NoRow /\ db'[sid] # NoRow) =>
             /\ db'[sid].updated_at >= db[sid].updated_at
             /\ db'[sid].state_data.updated_at >= db[sid].state_data.updated_at]_vars

----------------------------------------------------------------------------
(* StateManager.save_entity_feature: the entity_features table             *)

\* feature_map: feature name -> completion column
Features == {"signup", "kyc", "business_details", "bank_details"}

FeatureColumn(feature) ==
    CASE feature = "signup"           -> "signup_completed"
      [] feature = "kyc"              -> "kyc_completed"
      [] feature = "business_details" -> "business_details_completed"
      [] feature = "bank_details"     -> "bank_details_completed"

\* The feature argument: None, a key of feature_map, or another name
FeatureArgs == Features \cup {"none", "company"}

\* The entity_id, user_email, user_phone and organization_name arguments
\* of a call: each None or a value
EntityArg(entity_id, user_email, user_phone, organization_name) ==
    [entity_id |-> entity_id, user_email |-> user_email,
     user_phone |-> user_phone, organization_name |-> organization_name]

EntityArgs ==
    { EntityArg("None", "None", "None", "None"),
      EntityArg("E1", "None", "None", "None"),
      EntityArg("None", "a@b.co", "1234567890", "Acme Ltd"),
      EntityArg("E1", "a@b.co", "1234567890", "Acme Ltd") }

EntityFields == {"entity_id", "user_email", "user_phone", "organization_name"}

\* feature_map: the timestamp column and the data column of a feature
FeatureTimestamp(feature) ==
    CASE feature = "signup"           -> "signup_completed_at"
      [] feature = "kyc"              -> "kyc_completed_at"
      [] feature = "business_details" -> "business_details_completed_at"
      [] feature = "bank_details"     -> "bank_details_completed_at"

FeatureData(feature) ==
    CASE feature = "signup"           -> "None"
      [] feature = "kyc"              -> "kyc_data"
      [] feature = "business_details" -> "business_data"
      [] feature = "bank_details"     -> "bank_data"

\* A timestamp or data column that was never written
NULL == 0

\* The row the INSERT creates: the completion columns get the defaults of
\* the table (false), the timestamp and data columns are NULL.
NewFeatureRow(args) ==
    [entity_id                     |-> args.entity_id,
     user_email                    |-> args.user_email,
     user_phone                    |-> args.user_phone,
     organization_name             |-> args.organization_name,
     signup_completed              |-> FALSE,
     kyc_completed                 |-> FALSE,
     business_details_completed    |-> FALSE,
     bank_details_completed        |-> FALSE,
     onboarding_completed          |-> FALSE,
     signup_completed_at           |-> NULL,
     kyc_completed_at              |-> NULL,
     business_details_completed_at |-> NULL,
     bank_details_completed_at     |-> NULL,
     onboarding_completed_at       |-> NULL,
     kyc_data                      |-> NULL,
     business_data                 |-> NULL,
     bank_data                     |-> NULL]

\* `if not existing: INSERT ... else: UPDATE the fields that were provided`
UpsertEntity(row, args) ==
    IF row = NoRow THEN NewFeatureRow(args)
    ELSE [c \in DOMAIN row |->
             IF c \in EntityFields /\ args[c] # "None" THEN args[c] ELSE row[c]]

\* Variant: the UPDATE writes the four fields as they were passed.
SetCompletedOverwriting(row, feature, with_data) ==
    [row EXCEPT ![FeatureColumn(feature)] = TRUE,
                ![FeatureTimestamp(feature)] = now,
                !.entity_id = "None"]

\* Variant: the UPDATE sets the flag without its timestamp.
SetCompletedNoTimestamp(row, feature, with_data) ==
    [row EXCEPT ![FeatureColumn(feature)] = TRUE]

\* UPDATE SET <completed_col> = TRUE, <timestamp_col> = now [, <data_col>]
SetCompleted(row, feature, with_data) ==
    LET marked == [row EXCEPT ![FeatureColumn(feature)] = TRUE,
                              ![FeatureTimestamp(feature)] = now]
    IN  IF FeatureData(feature) # "None" /\ with_data
        THEN [marked EXCEPT ![FeatureData(feature)] = now]
        ELSE marked

\* `if feature: if feature in feature_map: ...`
MarkFeature(row, feature, with_data) ==
    IF feature \in Features THEN SetCompleted(row, feature, with_data)
    ELSE row

AllFeaturesCompleted(row) ==
    /\ row.signup_completed
    /\ row.kyc_completed
    /\ row.business_details_completed
    /\ row.bank_details_completed

\* Variant: the closing check of the four columns is not made.
DeriveCompletionNever(row) == row

\* The closing SELECT of the four columns and the UPDATE that sets
\* onboarding_completed when all of them are true.
DeriveCompletion(row) ==
    IF AllFeaturesCompleted(row)
    THEN [row EXCEPT !.onboarding_completed = TRUE, !.onboarding_completed_at = now]
    ELSE row

\* One call of save_entity_feature: RuntimeError without a pool; otherwise
\* the whole transaction commits, or an exception rolls it back and False
\* is returned. feature_data (with_data) only matters for a feature that
\* has a data column.
SaveEntityFeature ==
    /\ \E sid \in MgrSessions, args \in EntityArgs, feature \in FeatureArgs,
          with_data \in BOOLEAN, committed \in BOOLEAN :
          /\ with_data => (feature \in Features /\ FeatureData(feature) # "None")
          /\ LET call == [sid |-> sid, feature |-> feature, args |-> args, ret |-> "none"]
             IN  IF ~pool
                 THEN /\ feat_call' = [call EXCEPT !.ret = "RuntimeError"]
                      /\ UNCHANGED features
                 ELSE IF committed
                 THEN /\ features' = [features EXCEPT ![sid] =
                             DeriveCompletion(
                                MarkFeature(UpsertEntity(features[sid], args),
                                            feature, with_data))]
                      /\ feat_call' = [call EXCEPT !.ret = "True"]
                 ELSE /\ feat_call' = [call EXCEPT !.ret = "False"]
                      /\ UNCHANGED features
    /\ UNCHANGED <<graph_vars, store_vars, mgr_vars>>
    /\ UNCHANGED <<mig, val, api, proc, rclient>>

NextFeatures ==
    \/ Initialize
    \/ SaveEntityFeature

SpecFeatures == InitMgr /\ [][NextFeatures]_vars

\* C21: in every entity_features row, after any sequence of committed
\* save_entity_feature calls, onboarding_completed is true if and only if the
\* four completion columns are all true.
C21_DerivedCompletion ==
    \A sid \in Sessions :
       features[sid] # NoRow =>
          (features[sid].onboarding_completed <=> AllFeaturesCompleted(features[sid]))

C21_Witness ==
    /\ feat_call.ret = "True"
    /\ feat_call.feature = "bank_details"
    /\ features[feat_call.sid] # NoRow
    /\ features[feat_call.sid].onboarding_completed
    /\ AllFeaturesCompleted(features[feat_call.sid])

----------------------------------------------------------------------------
(* migrate_state applied to raw records                                    *)

\* Raw records: state_version missing, current, older, newer or null, with
\* and without the other fields.
RawRecords ==
    LET Opt(d, k, v) == IF v = "absent" THEN d ELSE Put(d, k, v)
    IN  { Opt(Opt(Opt([session_id |-> "s1"], "state_version", ver),
                  "current_step", step), "status", st) :
            ver  \in {"absent", "1.0", "0.9", "2.0", "None"},
            step \in {"absent", "welcome", "signup", "kyc"},
            st   \in {"absent", "active", "completed"} }

\* y = migrate_state(x)
MigrateRaw ==
    /\ mig.n = 0
    /\ \E x \in RawRecords :
          mig' = [n |-> 1, x |-> x, y |-> Migrate(x), z |-> NoRow]
    /\ UNCHANGED <<graph_vars, store_vars, mgr_vars>>
    /\ UNCHANGED <<features, feat_call, val, api, proc, rclient>>

\* z = migrate_state(y)
MigrateAgain ==
    /\ mig.n = 1
    /\ mig' = [mig EXCEPT !.n = 2, !.z = Migrate(mig.y)]
    /\ UNCHANGED <<graph_vars, store_vars, mgr_vars>>
    /\ UNCHANGED <<features, feat_call, val, api, proc, rclient>>

NextMigrate ==
    \/ MigrateRaw
    \/ MigrateAgain

SpecMigrate == Init /\ [][NextMigrate]_vars

\* C22: migrate_state is idempotent, migrate(migrate(x)) = migrate(x) for
\* every raw record x, and leaves a record already at the current version
\* as it is.
C22_MigrateIdempotent ==
    /\ mig.n >= 2 => mig.z = mig.y
    /\ (mig.n >= 1 /\ Has(mig.x, "state_version") /\ mig.x.state_version = "1.0")
          => mig.y = mig.x

C22_Witness ==
    /\ mig.n = 2
    /\ ~Has(mig.x, "state_version")
    /\ mig.y = Put(mig.x, "state_version", "1.0")
    /\ mig.z = mig.y

----------------------------------------------------------------------------
(* Python values and strings.  A string is the sequence of its characters; *)
(* a value is None, a string or a number.                                  *)

None == [kind |-> "none"]
Str(chars) == [kind |-> "str", s |-> chars]
Num(n) == [kind |-> "int", n |-> n]

Digits == {"0", "1", "2", "3", "4", "5", "6", "7", "8", "9"}
UpperSeq == <<"A", "B", "C", "D", "E", "F", "G", "H", "I", "J", "K", "L", "M",
              "N", "O", "P", "Q", "R", "S", "T", "U", "V", "W", "X", "Y", "Z">>
LowerSeq == <<"a", "b", "c", "d", "e", "f", "g", "h", "i", "j", "k", "l", "m",
              "n", "o", "p", "q", "r", "s", "t", "u", "v", "w", "x", "y", "z">>
Upper == {UpperSeq[i] : i \in DOMAIN UpperSeq}
Lower == {LowerSeq[i] : i \in DOMAIN LowerSeq}
Whitespace == {" ", "\t", "\n"}

\* `not v`: None, the empty string and 0 are falsy
Falsy(v) ==
    \/ v.kind = "none"
    \/ v.kind = "str" /\ v.s = <<>>
    \/ v.kind = "int" /\ v.n = 0

\* str.strip
Strip(s) ==
    LET keep == {i \in DOMAIN s : s[i] \notin Whitespace}
    IN  IF keep = {} THEN <<>>
        ELSE SubSeq(s, CHOOSE i \in keep : \A j \in keep : i <= j,
                       CHOOSE i \in keep : \A j \in keep : i >= j)

\* str.lower
ToLower(s) ==
    [i \in DOMAIN s |->
        IF s[i] \in Upper
        THEN LowerSeq[CHOOSE k \in DOMAIN UpperSeq : UpperSeq[k] = s[i]]
        ELSE s[i]]

AllIn(s, chars) == \A i \in DOMAIN s : s[i] \in chars

\* re.match(r'^[a-zA-Z0-9._%+-]+@[a-zA-Z0-9.-]+\.[a-zA-Z]{2,}$', s)
MatchesEmailPattern(s) ==
    LET Alnum == Upper \cup Lower \cup Digits
    IN  \E at \in DOMAIN s, dot \in DOMAIN s :
           /\ 1 < at /\ at + 1 < dot /\ dot + 2 <= Len(s)
           /\ s[at] = "@"
           /\ s[dot] = "."
           /\ AllIn(SubSeq(s, 1, at - 1), Alnum \cup {".", "_", "%", "+", "-"})
           /\ AllIn(SubSeq(s, at + 1, dot - 1), Alnum \cup {".", "-"})
           /\ AllIn(SubSeq(s, dot + 1, Len(s)), Upper \cup Lower)

\* re.sub(r'[^0-9]', '', s)
DigitsOf(s) ==
    LET IsDigit(c) == c \in Digits
    IN  SelectSeq(s, IsDigit)

----------------------------------------------------------------------------
(* validation_subgraph.py: validate_name -> validate_email ->             *)
(* validate_phone -> check_complete -> END                                 *)

NameInputs ==
    { None ,
      Num(7) ,
      Str(<<>>) ,
      Str(<<"A">>) ,
      Str(<<" ", " ">>) ,
      Str(<<" ", "A", "l", " ">>) ,
      Str(<<"J", "a", "n", "e", " ", "D", "o", "e">>) ,
      Str([i \in 1..101 |-> "a"]) }

EmailInputs ==
    { None ,
      Str(<<>>) ,
      Str(<<"b", "a", "d", "-", "e", "m", "a", "i", "l">>) ,
      Str(<<"a", "@", "b", ".", "c", "o">>) ,
      Str(<<" ", "A", "@", "B", ".", "C", "o", " ">>) ,
      Str(<<"a", "@", "b">>) ,
      Str(<<"a", "@", "b", ".", "c">>) ,
      Str(<<"a", " ", "b", "@", "c", ".", "d", "e">>) }

PhoneInputs ==
    { None ,
      Str(<<>>) ,
      Str(<<"1", "2", "3">>) ,
      Str(<<"1", "2", "3", "4", "5", "6", "7", "8", "9", "0">>) ,
      Str(<<"+", "9", "1", " ", "9", "8", "7", "6", "5", "-", "4", "3", "2", "1", "0">>) ,
      Str(<<"1", "2", "3", "4", "5", "6", "7", "8", "9", "0", "1", "2", "3", "4", "5", "6">>) }

\* validation_input of _validate_user_data; a flag not yet written reads as
\* False through state.get(flag, False).
ValidationInput(name, email, phone) ==
    [node |-> "validate_name", name |-> name, email |-> email, phone |-> phone,
     name_valid |-> FALSE, email_valid |-> FALSE, phone_valid |-> FALSE,
     validation_complete |-> FALSE, errors |-> <<>>, ran |-> <<>>]

Failed(st, flag, message) ==
    [st EXCEPT ![flag] = FALSE, !.errors = Append(@, message)]

validate_name(st) ==
    IF Falsy(st.name) \/ st.name.kind # "str"
    THEN Failed(st, "name_valid", "Name is required")
    ELSE IF Len(Strip(st.name.s)) < 2
    THEN Failed(st, "name_valid", "Name must be at least 2 characters")
    ELSE IF Len(Strip(st.name.s)) > 100
    THEN Failed(st, "name_valid", "Name must be less than 100 characters")
    ELSE [st EXCEPT !.name_valid = TRUE]

validate_email(st) ==
    IF Falsy(st.email) \/ st.email.kind # "str"
    THEN Failed(st, "email_valid", "Email is required")
    ELSE IF ~MatchesEmailPattern(ToLower(Strip(st.email.s)))
    THEN Failed(st, "email_valid", "Invalid email format")
    ELSE [st EXCEPT !.email_valid = TRUE]

validate_phone(st) ==
    IF Falsy(st.phone) \/ st.phone.kind # "str"
    THEN Failed(st, "phone_valid", "Phone is required")
    ELSE IF Len(DigitsOf(Strip(st.phone.s))) < 10
            \/ Len(DigitsOf(Strip(st.phone.s))) > 15
    THEN Failed(st, "phone_valid", "Phone must be between 10 and 15 digits")
    ELSE [st EXCEPT !.phone_valid = TRUE]

check_validation_complete(st) ==
    [st EXCEPT !.validation_complete =
                  st.name_valid /\ st.email_valid /\ st.phone_valid]

\* Variant: a validator that reported an error is followed by
\* check_complete.
ValidationEdgeShortCircuit(n, st) ==
    IF n = "check_complete" THEN "END"
    ELSE IF st.errors # <<>> THEN "check_complete"
    ELSE CASE n = "validate_name"  -> "validate_email"
           [] n = "validate_email" -> "validate_phone"
           [] n = "validate_phone" -> "check_complete"

\* The edges of the graph: none of them looks at the state.
ValidationEdge(n, st) ==
    CASE n = "validate_name"  -> "validate_email"
      [] n = "validate_email" -> "validate_phone"
      [] n = "validate_phone" -> "check_complete"
      [] n = "check_complete" -> "END"

ValidationNodes ==
    {"validate_name", "validate_email", "validate_phone", "check_complete"}

\* One superstep of validation_graph.invoke
ValidationStep ==
    /\ val.node \in ValidationNodes
    /\ LET st == CASE val.node = "validate_name"  -> validate_name(val)
                   [] val.node = "validate_email" -> validate_email(val)
                   [] val.node = "validate_phone" -> validate_phone(val)
                   [] val.node = "check_complete" -> check_validation_complete(val)
       IN  val' = [st EXCEPT !.node = ValidationEdge(val.node, st),
                             !.ran = Append(@, val.node)]
    /\ UNCHANGED <<graph_vars, store_vars, mgr_vars>>
    /\ UNCHANGED <<features, feat_call, mig, api, proc, rclient>>

\* validation_graph.invoke on some input
InvokeValidation ==
    /\ val.node = "idle"
    /\ \E name \in NameInputs, email \in EmailInputs, phone \in PhoneInputs :
          val' = ValidationInput(name, email, phone)
    /\ UNCHANGED <<graph_vars, store_vars, mgr_vars>>
    /\ UNCHANGED <<features, feat_call, mig, api, proc, rclient>>

NextValidation ==
    \/ InvokeValidation
    \/ ValidationStep

SpecValidation == Init /\ [][NextValidation]_vars

NameMessages ==
    {"Name is required", "Name must be at least 2 characters",
     "Name must be less than 100 characters"}
EmailMessages == {"Email is required", "Invalid email format"}
PhoneMessages == {"Phone is required", "Phone must be between 10 and 15 digits"}

\* C23: the validation pipeline always runs the name, email and phone
\* validators in that order whatever the earlier verdicts, the error list is
\* the concatenation in that order of one message per failing field, and the
\* verdict is valid exactly when all three fields are valid, which is when
\* the error list is empty.
C23_NoShortCircuit ==
    val.node = "END" =>
       LET n1 == IF val.name_valid THEN 0 ELSE 1
           n2 == IF val.email_valid THEN 0 ELSE 1
           n3 == IF val.phone_valid THEN 0 ELSE 1
       IN  /\ val.ran = <<"validate_name", "validate_email", "validate_phone",
                          "check_complete">>
           /\ Len(val.errors) = n1 + n2 + n3
           /\ n1 = 1 => val.errors[1] \in NameMessages
           /\ n2 = 1 => val.errors[n1 + 1] \in EmailMessages
           /\ n3 = 1 => val.errors[n1 + n2 + 1] \in PhoneMessages
           /\ val.validation_complete <=>
                 (val.name_valid /\ val.email_valid /\ val.phone_valid)
           /\ val.validation_complete <=> val.errors = <<>>

\* The input {name: "A", email: "bad-email", phone: "123"}
C23_Witness ==
    /\ val.node = "END"
    /\ val.name = Str(<<"A">>)
    /\ val.email = Str(<<"b", "a", "d", "-", "e", "m", "a", "i", "l">>)
    /\ val.phone = Str(<<"1", "2", "3">>)
    /\ ~val.validation_complete
    /\ val.errors = <<"Name must be at least 2 characters", "Invalid email format",
                      "Phone must be between 10 and 15 digits">>

----------------------------------------------------------------------------
(* api_subgraph.py: prepare_request -> call_api -> handle_retry, and the   *)
(* router from handle_retry back to call_api or to END                     *)

max_retries == 3

\* What one requests.post attempt can do: a response with an entity_id, a
\* timeout, a connection error, an HTTP error status, a response without
\* entity_id.
ApiOutcomes ==
    {"ok", "timeout", "connection_error", "http_4xx", "http_5xx", "no_entity_id"}

TransientOutcomes == {"timeout", "connection_error"}

\* error_message of call_external_api's three except branches
ApiErrorMessage(outcome) ==
    CASE outcome = "timeout"          -> "API request timeout - please try again"
      [] outcome = "connection_error" -> "API connection error: connection refused"
      [] outcome = "http_4xx"         -> "API connection error: 400 Client Error"
      [] outcome = "http_5xx"         -> "API connection error: 500 Server Error"
      [] outcome = "no_entity_id"     -> "No entity_id in API response"

\* api_input of _generate_entity_id; attempts lists what each call attempt
\* of this invocation did, waits the seconds of each time.sleep.
ApiInput ==
    [node |-> "prepare_request", success |-> FALSE, entity_id |-> "None",
     retry_count |-> 0, error_message |-> "None", attempts |-> <<>>, waits |-> <<>>]

call_external_api(st, outcome) ==
    IF outcome = "ok"
    THEN [st EXCEPT !.success = TRUE, !.entity_id = "E1", !.error_message = "None",
                    !.attempts = Append(@, outcome)]
    ELSE [st EXCEPT !.success = FALSE, !.entity_id = "None",
                    !.error_message = ApiErrorMessage(outcome),
                    !.attempts = Append(@, outcome)]

handle_api_retry(st) ==
    IF st.success THEN st
    ELSE IF st.retry_count < max_retries
    THEN [st EXCEPT !.retry_count = @ + 1, !.waits = Append(@, 2 ^ st.retry_count)]
    ELSE st

\* Variant: the router allows a call while retry_count <= max_retries.
ApiRouterOneMore(st) ==
    IF st.success THEN "END"
    ELSE IF st.retry_count <= max_retries THEN "call_api"
    ELSE "END"

\* router, evaluated on the state handle_retry left
ApiRouter(st) ==
    IF st.success THEN "END"
    ELSE IF st.retry_count < max_retries THEN "call_api"
    ELSE "END"

\* One superstep of api_graph.invoke
ApiStep ==
    /\ api.node \in {"prepare_request", "call_api", "handle_retry"}
    /\ \E outcome \in ApiOutcomes :
          api' = IF api.node = "prepare_request"
                 THEN [api EXCEPT !.node = "call_api"]
                 ELSE IF api.node = "call_api"
                 THEN [call_external_api(api, outcome) EXCEPT !.node = "handle_retry"]
                 ELSE [handle_api_retry(api) EXCEPT
                          !.node = ApiRouter(handle_api_retry(api))]
    /\ UNCHANGED <<graph_vars, store_vars, mgr_vars>>
    /\ UNCHANGED <<features, feat_call, mig, val, proc, rclient>>

\* api_graph.invoke with retry_count 0
InvokeApi ==
    /\ api.node = "idle"
    /\ api' = ApiInput
    /\ UNCHANGED <<graph_vars, store_vars, mgr_vars>>
    /\ UNCHANGED <<features, feat_call, mig, val, proc, rclient>>

NextApi ==
    \/ InvokeApi
    \/ ApiStep

SpecApi == Init /\ [][NextApi]_vars

ApiRunning == api.node # "idle"

\* C28: the retry loop retries only transient failures: a call attempt is
\* never made after a non-transient failure (an HTTP 4xx response, a
\* response without entity_id).
C28_RetryOnlyTransient ==
    ApiRunning =>
       \A i \in 1..(Len(api.attempts) - 1) : api.attempts[i] \in TransientOutcomes

\* C29: one invocation started with retry_count 0 makes at most 3 call
\* attempts and none after the first success; when every attempt failed it
\* ends with success false, entity_id null and the error message of the
\* last attempt.
C29_BoundedRetry ==
    ApiRunning =>
       LET n == Len(api.attempts)
       IN  /\ n <= 3
           /\ \A i \in 1..(n - 1) : api.attempts[i] # "ok"
           /\ (api.node = "END" /\ n >= 1 /\ api.attempts[n] # "ok") =>
                 /\ n = 3
                 /\ ~api.success
                 /\ api.entity_id = "None"
                 /\ api.error_message = ApiErrorMessage(api.attempts[n])
           /\ (api.node = "END" /\ n >= 1 /\ api.attempts[n] = "ok") =>
                 (api.success /\ api.entity_id # "None")

C29_Witness ==
    /\ api.node = "END"
    /\ api.attempts = <<"timeout", "connection_error", "timeout">>
    /\ ~api.success
    /\ api.retry_count = 3

----------------------------------------------------------------------------
(* bank_details_agent.py and company_details_agent.py: the stage           *)
(* processors without an external call                                     *)

StrOf(v) == IF v.kind = "str" THEN v.s ELSE <<>>

\* str.isdigit, str.isalnum (ASCII input)
IsDigitStr(s) == s # <<>> /\ AllIn(s, Digits)
IsAlnumStr(s) == s # <<>> /\ AllIn(s, Upper \cup Lower \cup Digits)

\* `sub in s`
Contains(s, sub) ==
    \E i \in 1..(Len(s) - Len(sub) + 1) : SubSeq(s, i, i + Len(sub) - 1) = sub

\* str.replace(c, '') for a one-character c
Without(s, c) ==
    LET Keep(x) == x # c
    IN  SelectSeq(s, Keep)

\* re.match(r'^[A-Z]{4}0[A-Z0-9]{6}$', s); `$` also matches before a final
\* newline
MatchesIfscPattern(s) ==
    /\ Len(s) = 11 \/ (Len(s) = 12 /\ s[12] = "\n")
    /\ AllIn(SubSeq(s, 1, 4), Upper)
    /\ s[5] = "0"
    /\ AllIn(SubSeq(s, 6, 11), Upper \cup Digits)

BankRequired == <<"account_holder_name", "account_number", "ifsc_code", "bank_name">>

CompanyRequired == <<"company_name", "registration_number", "address">>

MissingMessage(field) ==
    CASE field = "account_holder_name" -> "Missing required field: account_holder_name"
      [] field = "account_number"      -> "Missing required field: account_number"
      [] field = "ifsc_code"           -> "Missing required field: ifsc_code"
      [] field = "bank_name"           -> "Missing required field: bank_name"
      [] field = "company_name"        -> "Missing required field: company_name"
      [] field = "registration_number" -> "Missing required field: registration_number"
      [] field = "address"             -> "Missing required field: address"

\* for field in required_fields: if not data.get(field): errors.append(...)
RECURSIVE MissingErrors(_, _, _)
MissingErrors(data, required, i) ==
    IF i > Len(required) THEN <<>>
    ELSE (IF Falsy(Get(data, required[i], None))
          THEN <<MissingMessage(required[i])>> ELSE <<>>)
         \o MissingErrors(data, required, i + 1)

\* A method of str called on a truthy value that is not a str raises.
NotStr(v) == ~Falsy(v) /\ v.kind # "str"

\* Variant: the format checks run on every value, empty ones included.
BankFormatChecksUnguarded(data) ==
    LET account_number == Get(data, "account_number", Str(<<>>))
        ifsc_code      == Get(data, "ifsc_code", Str(<<>>))
        account_holder == Get(data, "account_holder_name", Str(<<>>))
    IN  (IF ~IsDigitStr(StrOf(account_number))
         THEN <<"Account number must contain only digits">> ELSE <<>>)
        \o (IF ~MatchesIfscPattern(StrOf(ifsc_code))
            THEN <<"Invalid IFSC code format">> ELSE <<>>)
        \o (IF Len(Strip(StrOf(account_holder))) < 2
            THEN <<"Account holder name must be at least 2 characters">> ELSE <<>>)

\* The three format checks of _validate_bank_data, on values that are str
\* or falsy
BankFormatChecks(data) ==
    LET account_number == Get(data, "account_number", Str(<<>>))
        ifsc_code      == Get(data, "ifsc_code", Str(<<>>))
        account_holder == Get(data, "account_holder_name", Str(<<>>))
    IN  (IF ~Falsy(account_number) /\ ~IsDigitStr(StrOf(account_number))
         THEN <<"Account number must contain only digits">> ELSE <<>>)
        \o (IF ~Falsy(ifsc_code) /\ ~MatchesIfscPattern(StrOf(ifsc_code))
            THEN <<"Invalid IFSC code format">> ELSE <<>>)
        \o (IF ~Falsy(account_holder) /\ Len(Strip(StrOf(account_holder))) < 2
            THEN <<"Account holder name must be at least 2 characters">> ELSE <<>>)

\* _validate_bank_data: raised when .isdigit / re.match / .strip meets a
\* truthy value that is not a str
validate_bank_data(data) ==
    IF \/ NotStr(Get(data, "account_number", Str(<<>>)))
       \/ NotStr(Get(data, "ifsc_code", Str(<<>>)))
       \/ NotStr(Get(data, "account_holder_name", Str(<<>>)))
    THEN [raised |-> TRUE, success |-> FALSE, errors |-> <<>>]
    ELSE LET errors == MissingErrors(data, BankRequired, 1) \o BankFormatChecks(data)
         IN  [raised |-> FALSE, success |-> errors = <<>>, errors |-> errors]

process_bank_details(data) ==
    LET validation_result == validate_bank_data(data)
    IN  IF validation_result.raised
        THEN [success |-> FALSE, status |-> "error", error |-> "exception"]
        ELSE IF ~validation_result.success
        THEN [success |-> FALSE, status |-> "validation_failed",
              errors |-> validation_result.errors]
        ELSE [success |-> TRUE, status |-> "completed", bank_data |-> data]

\* _detect_company_type: .lower() of a company_name that is present but
\* not a str raises
CompanyTypeRaises(data) == Get(data, "company_name", Str(<<>>)).kind # "str"

detect_company_type(data) ==
    LET company_name == ToLower(StrOf(Get(data, "company_name", Str(<<>>))))
        HasAny(keywords) == \E k \in keywords : Contains(company_name, k)
    IN  IF HasAny({<<"l", "t", "d">>, <<"l", "i", "m", "i", "t", "e", "d">>, <<"c", "o", "r", "p">>, <<"c", "o", "r", "p", "o", "r", "a", "t", "i", "o", "n">>})
        THEN "Corporation"
        ELSE IF HasAny({<<"l", "l", "c">>, <<"l", "l", "p">>, <<"p", "a", "r", "t", "n", "e", "r", "s", "h", "i", "p">>})
        THEN "LLC/Partnership"
        ELSE IF HasAny({<<"p", "v", "t">>, <<"p", "r", "i", "v", "a", "t", "e">>})
        THEN "Private Limited"
        ELSE "Business Entity"

CompanyFormatChecks(data) ==
    LET company_name == Get(data, "company_name", None)
        reg_number   == Get(data, "registration_number", Str(<<>>))
    IN  (IF ~Falsy(company_name) /\ Len(StrOf(company_name)) < 3
         THEN <<"Company name must be at least 3 characters">> ELSE <<>>)
        \o (IF ~Falsy(reg_number)
               /\ ~IsAlnumStr(Without(Without(StrOf(reg_number), "-"), " "))
            THEN <<"Invalid registration number format">> ELSE <<>>)

\* _validate_company_data, called after company_name was found to be a str
validate_company_data(data) ==
    IF NotStr(Get(data, "registration_number", Str(<<>>)))
    THEN [raised |-> TRUE, success |-> FALSE, errors |-> <<>>]
    ELSE LET errors == MissingErrors(data, CompanyRequired, 1) \o CompanyFormatChecks(data)
         IN  [raised |-> FALSE, success |-> errors = <<>>, errors |-> errors]

\* process_company_details: the dict it returns, and company_data as the
\* call leaves it (company_type is written into the caller's dict)
CompanyDataAfter(data) ==
    IF CompanyTypeRaises(data) THEN data
    ELSE Put(data, "company_type", [kind |-> "label", s |-> detect_company_type(data)])

process_company_details(data) ==
    IF CompanyTypeRaises(data)
    THEN [success |-> FALSE, status |-> "error", error |-> "exception"]
    ELSE LET validation_result == validate_company_data(CompanyDataAfter(data))
         IN  IF validation_result.raised
             THEN [success |-> FALSE, status |-> "error", error |-> "exception"]
             ELSE IF ~validation_result.success
             THEN [success |-> FALSE, status |-> "validation_failed",
                   errors |-> validation_result.errors]
             ELSE [success |-> TRUE, status |-> "completed",
                   company_data |-> CompanyDataAfter(data),
                   company_type |-> detect_company_type(data)]

\* A key the extracted dict does not have
Absent == [kind |-> "absent"]

\* The dict holding the chosen value of every field that is not Absent
DictOf(choice) ==
    [f \in {g \in DOMAIN choice : choice[g] # Absent} |-> choice[f]]

HolderInputs ==
    {Absent, None, Str(<<>>), Str(<<" ", " ">>), Str(<<"J">>), Str(<<"J", "a", "n", "e", " ", "D", "o", "e">>)}
AccountInputs == {Absent, Str(<<"1", "2", "3", "4", "5">>), Str(<<"1", "2", "a">>), Num(12345)}
IfscInputs ==
    {Absent, Str(<<"A", "B", "C", "D", "0", "1", "2", "3", "4", "5", "6">>), Str(<<"a", "b", "c", "d", "0", "1", "2", "3", "4", "5", "6">>), Str(<<"A", "B", "C", "D", "1", "1", "2", "3", "4", "5", "6">>)}
BankNameInputs == {Absent, Str(<<>>), Str(<<"T", "e", "s", "t", " ", "B", "a", "n", "k">>)}

BankInputs ==
    {DictOf([account_holder_name |-> h, account_number |-> a,
             ifsc_code |-> i, bank_name |-> b]) :
        h \in HolderInputs, a \in AccountInputs, i \in IfscInputs, b \in BankNameInputs}

CompanyNameInputs == {Absent, None, Str(<<>>), Str(<<"a", "b">>), Str(<<"A", "c", "m", "e", " ", "L", "t", "d">>)}
RegistrationInputs ==
    {Absent, Str(<<"R", "E", "G", "-", "1", "2", "3", " ", "4", "5">>), Str(<<"R", "#", "1">>), Str(<<"-", "-">>), Num(7)}
AddressInputs == {Absent, None, Str(<<"1", " ", "M", "a", "i", "n", " ", "S", "t">>)}

CompanyInputs ==
    {DictOf([company_name |-> c, registration_number |-> r, address |-> a]) :
        c \in CompanyNameInputs, r \in RegistrationInputs, a \in AddressInputs}

\* The stage call as the node wrapper sees it: the data as extracted and
\* as the processor left it, the dict the processor returned and
\* <stage>_complete = result.get('success', False)
Processed(stage, input, data, res, invocations) ==
    [pc |-> "done", stage |-> stage, input |-> input, data |-> data, result |-> res,
     api_invocations |-> invocations, flag |-> Get(res, "success", FALSE)]

ProcFrame ==
    /\ UNCHANGED <<graph_vars, store_vars, mgr_vars>>
    /\ UNCHANGED <<features, feat_call, mig, rclient>>

ProcessBankDetails ==
    /\ proc.pc = "idle"
    /\ \E data \in BankInputs :
          proc' = Processed(AGENT_BANK, data, data, process_bank_details(data), 0)
    /\ UNCHANGED <<val, api>>
    /\ ProcFrame

ProcessCompanyDetails ==
    /\ proc.pc = "idle"
    /\ \E data \in CompanyInputs :
          proc' = Processed(AGENT_COMPANY, data, CompanyDataAfter(data),
                            process_company_details(data), 0)
    /\ UNCHANGED <<val, api>>
    /\ ProcFrame

----------------------------------------------------------------------------
(* kyc_agent.py: process_kyc and its PAN, Aadhar and GST sub-agents        *)

\* re.match of a pattern that fixes one character class per position
MatchesClasses(s, classes) ==
    /\ Len(s) = Len(classes) \/ (Len(s) = Len(classes) + 1 /\ s[Len(s)] = "\n")
    /\ \A i \in DOMAIN classes : s[i] \in classes[i]

\* r'^[A-Z]{5}[0-9]{4}[A-Z]{1}$'
PanPattern == [i \in 1..10 |-> IF i \in 6..9 THEN Digits ELSE Upper]

\* r'^\d{12}$'
AadharPattern == [i \in 1..12 |-> Digits]

\* r'^\d{2}[A-Z]{5}\d{4}[A-Z]{1}[A-Z\d]{1}[Z]{1}[A-Z\d]{1}$'
GstPattern ==
    [i \in 1..15 |->
        IF i \in {1, 2} \cup (8..11) THEN Digits
        ELSE IF i \in (3..7) \cup {12} THEN Upper
        ELSE IF i = 14 THEN {"Z"}
        ELSE Upper \cup Digits]

\* A document dict of the extracted KYC data: {} or {<key>: number}
Doc(number) == [kind |-> "dict", number |-> number]

EmptyDoc == Doc(Absent)

\* bool(kyc_data.get(key))
DocGiven(data, key) ==
    LET d == Get(data, key, None)
    IN  d.kind = "dict" /\ d.number # Absent

\* process_pan / process_aadhar / process_gst on kyc_data.get(key, {}):
\* the 'success' of the sub-agent's result
process_document(data, key, pattern) ==
    LET d == Get(data, key, EmptyDoc)
    IN  MatchesClasses(StrOf(IF d.number = Absent THEN Str(<<>>) ELSE d.number), pattern)

KycRaises(data) == Get(data, "business_type", Str(<<>>)).kind # "str"

\* _detect_kyc_requirements: a document is required when it was supplied,
\* GST also when business_type names a company
detect_kyc_requirements(data) ==
    LET business_type == ToLower(StrOf(Get(data, "business_type", Str(<<>>))))
    IN  [pan |-> DocGiven(data, "pan_data"),
         aadhar |-> DocGiven(data, "aadhar_data"),
         gst |-> \/ DocGiven(data, "gst_data")
                 \/ Contains(business_type, <<"c", "o", "m", "p", "a", "n", "y">>)
                 \/ Contains(business_type, <<"c", "o", "r", "p">>)]

KycDocuments == <<"pan", "aadhar", "gst">>

\* kyc_results: the success of every sub-agent that was run
kyc_results(data, requirements) ==
    [pan |-> requirements.pan /\ process_document(data, "pan_data", PanPattern),
     aadhar |-> requirements.aadhar /\ process_document(data, "aadhar_data", AadharPattern),
     gst |-> requirements.gst /\ process_document(data, "gst_data", GstPattern)]

\* _validate_kyc_completion: the required documents without a successful
\* result
RECURSIVE MissingDocuments(_, _, _)
MissingDocuments(results, requirements, i) ==
    IF i > Len(KycDocuments) THEN <<>>
    ELSE (IF requirements[KycDocuments[i]] /\ ~results[KycDocuments[i]]
          THEN <<KycDocuments[i]>> ELSE <<>>)
         \o MissingDocuments(results, requirements, i + 1)

process_kyc(data) ==
    IF KycRaises(data)
    THEN [success |-> FALSE, status |-> "error", error |-> "exception"]
    ELSE LET requirements == detect_kyc_requirements(data)
             results == kyc_results(data, requirements)
             missing == MissingDocuments(results, requirements, 1)
         IN  IF missing = <<>>
             THEN [success |-> TRUE, status |-> "completed",
                   kyc_results |-> results, requirements |-> requirements]
             ELSE [success |-> FALSE, status |-> "incomplete",
                   kyc_results |-> results, missing_requirements |-> missing]

PanInputs == {Absent, EmptyDoc, Doc(Str(<<"A", "B", "C", "D", "E", "1", "2", "3", "4", "F">>)), Doc(Str(<<"a", "b", "c">>))}
AadharInputs == {Absent, Doc(Str(<<"1", "2", "3", "4", "5", "6", "7", "8", "9", "0", "1", "2">>)), Doc(Str(<<"1", "2", "3">>))}
GstInputs == {Absent, Doc(Str(<<"2", "2", "A", "B", "C", "D", "E", "1", "2", "3", "4", "F", "1", "Z", "5">>)), Doc(Str(<<"2", "2", "A", "B", "C", "D", "E", "1", "2", "3", "4", "F", "1", "X", "5">>))}
BusinessTypeInputs == {Absent, None, Str(<<"i", "n", "d", "i", "v", "i", "d", "u", "a", "l">>), Str(<<"P", "r", "i", "v", "a", "t", "e", " ", "C", "o", "m", "p", "a", "n", "y">>)}

KycInputs ==
    {DictOf([pan_data |-> p, aadhar_data |-> a, gst_data |-> g, business_type |-> b]) :
        p \in PanInputs, a \in AadharInputs, g \in GstInputs, b \in BusinessTypeInputs}

ProcessKyc ==
    /\ proc.pc = "idle"
    /\ \E data \in KycInputs :
          proc' = Processed(AGENT_KYC, data, data, process_kyc(data), 0)
    /\ UNCHANGED <<val, api>>
    /\ ProcFrame

----------------------------------------------------------------------------
(* signup_agent.py: process_signup = validation subgraph, then the API     *)
(* subgraph, then _complete_signup                                         *)

SignupNames == {Absent, None, Str(<<"A">>), Str(<<"J", "a", "n", "e", " ", "D", "o", "e">>)}
SignupEmails == {Absent, Str(<<"b", "a", "d", "-", "e", "m", "a", "i", "l">>), Str(<<"a", "@", "b", ".", "c", "o">>)}
SignupPhones == {Absent, Str(<<"1", "2", "3">>), Str(<<"1", "2", "3", "4", "5", "6", "7", "8", "9", "0">>)}

SignupInputs ==
    {DictOf([name |-> n, email |-> e, phone |-> p]) :
        n \in SignupNames, e \in SignupEmails, p \in SignupPhones}

\* process_signup up to validation_graph.invoke(validation_input)
ProcessSignup ==
    /\ proc.pc = "idle"
    /\ \E data \in SignupInputs :
          /\ proc' = [NoProc EXCEPT !.pc = "validating", !.stage = AGENT_SIGNUP,
                                    !.input = data, !.data = data]
          /\ val' = ValidationInput(Get(data, "name", None), Get(data, "email", None),
                                    Get(data, "phone", None))
    /\ UNCHANGED api
    /\ ProcFrame

\* Variant: the entity-creation API is invoked whatever the validation
\* verdict, and a failed validation is reported afterwards.
SignupAfterValidationAlwaysCalls ==
    /\ proc.pc = "validating"
    /\ val.node = "END"
    /\ proc' = [proc EXCEPT !.pc = "calling_api", !.api_invocations = @ + 1]
    /\ api' = ApiInput
    /\ UNCHANGED val
    /\ ProcFrame

\* process_signup from the verdict of _validate_user_data to
\* api_graph.invoke(api_input), or to the validation_failed return
SignupAfterValidation ==
    /\ proc.pc = "validating"
    /\ val.node = "END"
    /\ IF ~val.validation_complete
       THEN /\ proc' = Processed(AGENT_SIGNUP, proc.input, proc.data,
                                 [success |-> FALSE, status |-> "validation_failed",
                                  errors |-> val.errors], proc.api_invocations)
            /\ UNCHANGED api
       ELSE /\ proc' = [proc EXCEPT !.pc = "calling_api", !.api_invocations = @ + 1]
            /\ api' = ApiInput
    /\ UNCHANGED val
    /\ ProcFrame

\* Variant: the stage counts as done once the API subgraph has ended.
SignupResultLenient(st) ==
    [success |-> TRUE, status |-> "completed", entity_id |-> st.entity_id,
     user_data |-> proc.data]

\* The dict process_signup returns after _generate_entity_id
SignupResult(st) ==
    IF ~st.success
    THEN [success |-> FALSE, status |-> "api_failed", error |-> st.error_message]
    ELSE [success |-> TRUE, status |-> "completed", entity_id |-> st.entity_id,
          user_data |-> proc.data]

\* process_signup from the end of the API subgraph to its return
SignupAfterApi ==
    /\ proc.pc = "calling_api"
    /\ api.node = "END"
    /\ proc' = Processed(AGENT_SIGNUP, proc.input, proc.data, SignupResult(api),
                         proc.api_invocations)
    /\ UNCHANGED <<val, api>>
    /\ ProcFrame

NextStage ==
    \/ ProcessSignup
    \/ ValidationStep
    \/ SignupAfterValidation
    \/ ApiStep
    \/ SignupAfterApi
    \/ ProcessCompanyDetails
    \/ ProcessKyc
    \/ ProcessBankDetails

SpecStage == Init /\ [][NextStage]_vars

\* The format rule of a required field, stated on the field alone
Malformed(field, v) ==
    /\ v.kind = "str"
    /\ v.s # <<>>
    /\ CASE field = "account_number"      -> ~IsDigitStr(v.s)
         [] field = "ifsc_code"           -> ~MatchesIfscPattern(v.s)
         [] field = "account_holder_name" -> Len(Strip(v.s)) < 2
         [] field = "company_name"        -> Len(v.s) < 3
         [] field = "registration_number" ->
               ~IsAlnumStr(Without(Without(v.s, "-"), " "))
         [] OTHER -> FALSE

Violating(field, data) ==
    \/ Falsy(Get(data, field, None))
    \/ Malformed(field, Get(data, field, None))

FieldMessages(field) ==
    {MissingMessage(field)} \cup
    (CASE field = "account_number"      -> {"Account number must contain only digits"}
       [] field = "ifsc_code"           -> {"Invalid IFSC code format"}
       [] field = "account_holder_name" ->
             {"Account holder name must be at least 2 characters"}
       [] field = "company_name"        -> {"Company name must be at least 3 characters"}
       [] field = "registration_number" -> {"Invalid registration number format"}
       [] OTHER -> {})

RequiredOf(stage) ==
    IF stage = AGENT_BANK THEN {BankRequired[i] : i \in DOMAIN BankRequired}
    ELSE {CompanyRequired[i] : i \in DOMAIN CompanyRequired}

\* The validator of the call returned a verdict (it did not raise)
Validated ==
    /\ proc.pc = "done"
    /\ proc.stage \in {AGENT_BANK, AGENT_COMPANY}
    /\ proc.result.status \in {"validation_failed", "completed"}

ValidationFailed ==
    /\ proc.pc = "done"
    /\ CASE proc.stage = AGENT_SIGNUP ->
              val.node = "END" /\ ~val.validation_complete
         [] proc.stage = AGENT_BANK ->
              ~validate_bank_data(proc.input).raised
              /\ ~validate_bank_data(proc.input).success
         [] proc.stage = AGENT_COMPANY ->
              /\ ~CompanyTypeRaises(proc.input)
              /\ ~validate_company_data(CompanyDataAfter(proc.input)).raised
              /\ ~validate_company_data(CompanyDataAfter(proc.input)).success
         [] proc.stage = AGENT_KYC ->
              /\ ~KycRaises(proc.input)
              /\ \E d \in {"pan", "aadhar", "gst"} :
                    /\ detect_kyc_requirements(proc.input)[d]
                    /\ ~kyc_results(proc.input, detect_kyc_requirements(proc.input))[d]

\* The list of what was wrong in a processor's result: 'errors', or
\* 'missing_requirements' for KYC
ErrorList(res) == Get(res, "errors", Get(res, "missing_requirements", <<>>))

ApiExhausted ==
    /\ proc.pc = "done"
    /\ proc.stage = AGENT_SIGNUP
    /\ val.validation_complete
    /\ api.node = "END"
    /\ api.attempts # <<>>
    /\ \A i \in DOMAIN api.attempts : api.attempts[i] # "ok"

\* C26: when validation succeeds and the entity-creation call fails on
\* every attempt, process_signup returns success false with the failure
\* reason and the signup node leaves signup_complete false.
C26_ApiFailureNotComplete ==
    ApiExhausted =>
       /\ ~proc.result.success
       /\ proc.result.status = "api_failed"
       /\ proc.result.error = ApiErrorMessage(api.attempts[Len(api.attempts)])
       /\ ~proc.flag
       /\ proc.flag = NodeFlag(IF proc.result.success THEN "success" ELSE "failure")

C26_Witness ==
    /\ ApiExhausted
    /\ Len(api.attempts) = 3
    /\ proc.result.error = "API request timeout - please try again"
    /\ ~proc.flag

\* Something of a session is held by the State Store: a chat_sessions row,
\* a cache entry or an entity_features row.
Persisted(s) ==
    \/ db[s] # NoRow
    \/ cache[s] # NoRow
    \/ features[s] # NoRow

\* C27: when a stage processor's validation and external call both
\* succeed, a record of the completed stage is handed to the State Store
\* and a later load sees it; when either fails nothing of the stage is
\* persisted.
C27_PersistedOnSuccess ==
    proc.pc = "done" =>
       (proc.result.success <=> \E s \in Sessions : Persisted(s))

\* C30: every stage processor returns success false for an empty mapping,
\* so no stage flag becomes true from empty extracted data.
C30_EmptyInputRejected ==
    (proc.pc = "done" /\ DOMAIN proc.input = {}) =>
       (~proc.result.success /\ ~proc.flag)

----------------------------------------------------------------------------
(* redis_client.py: the RedisClient singleton, _initialize and             *)
(* _execute_with_retry behind set, get and delete                          *)

RedisOps == {"set", "get", "delete"}

\* What one run of the wrapped operation can do: return, raise
\* redis.ConnectionError, raise redis.TimeoutError, raise anything else
\* (ResponseError, the AttributeError of a None client, a JSON error).
OperationOutcomes == {"ok", "ConnectionError", "TimeoutError", "Exception"}

\* What _initialize can do: connect; give up after its attempts failed
\* with redis.ConnectionError (client None, normal return); let any other
\* exception of redis.Redis(...) / ping() escape -- redis.TimeoutError is
\* what a connect or a ping running into the configured socket timeouts
\* raises.
InitializeOutcomes == {"connected", "ConnectionError", "TimeoutError", "Exception"}

\* The value set / get / delete make of what _execute_with_retry returned
RedisValue(op, succeeded) ==
    CASE op = "set"    -> IF succeeded THEN "True" ELSE "False"
      [] op = "get"    -> IF succeeded THEN "value" ELSE "None"
      [] op = "delete" -> IF succeeded THEN "1" ELSE "0"

RedisReturn(rc, succeeded) ==
    [rc EXCEPT !.pc = "done", !.out = [tag |-> "value", v |-> RedisValue(rc.op, succeeded)]]

RedisRaise(rc, exception) ==
    [rc EXCEPT !.pc = "done", !.out = [tag |-> "raise", v |-> exception]]

RedisFrame ==
    /\ UNCHANGED <<graph_vars, store_vars, mgr_vars>>
    /\ UNCHANGED <<features, feat_call, mig, val, api, proc>>

\* __new__: the first RedisClient() runs _initialize (a constructor whose
\* _initialize raises leaves no usable instance and is not followed here)
RedisNew ==
    /\ rclient.pc = "absent"
    /\ \E o \in {"connected", "ConnectionError"} :
          rclient' = [rclient EXCEPT !.pc = "idle",
                         !.client = IF o = "connected" THEN "Redis" ELSE "None"]
    /\ RedisFrame

\* set / get / delete entered
RedisCall ==
    /\ rclient.pc \in {"idle", "done"}
    /\ rclient.op = "none"
    /\ \E op \in RedisOps :
          rclient' = [rclient EXCEPT !.pc = "first", !.op = op]
    /\ RedisFrame

\* _execute_with_retry: the first operation()
RedisFirst ==
    /\ rclient.pc = "first"
    /\ \E o \in OperationOutcomes :
          LET rc == [rclient EXCEPT !.executions = @ + 1, !.last_error = o]
          IN  rclient' =
                 IF o = "ok" THEN RedisReturn([rc EXCEPT !.client = "Redis"], TRUE)
                 ELSE IF o \in {"ConnectionError", "TimeoutError"}
                 THEN [rc EXCEPT !.pc = "reconnect", !.client = "None"]
                 ELSE RedisReturn(rc, FALSE)
    /\ RedisFrame

\* `_ = self.client` of the except branch: the property runs _initialize
\* because _client is None; `if self._client:` decides about the retry
RedisReconnectResult(rc, o) ==
    IF o = "connected" THEN [rc EXCEPT !.pc = "retry", !.client = "Redis"]
    ELSE IF o = "ConnectionError" THEN RedisReturn(rc, FALSE)
    ELSE RedisRaise(rc, o)

RedisReconnect ==
    /\ rclient.pc = "reconnect"
    /\ \E o \in InitializeOutcomes :
          rclient' = RedisReconnectResult(rclient, o)
    /\ RedisFrame

\* the retry: every exception of the second operation() gives None
RedisRetry ==
    /\ rclient.pc = "retry"
    /\ \E o \in OperationOutcomes :
          LET rc == [rclient EXCEPT !.executions = @ + 1, !.last_error = o]
          IN  rclient' = RedisReturn(rc, o = "ok")
    /\ RedisFrame

NextRedis ==
    \/ RedisNew
    \/ RedisCall
    \/ RedisFirst
    \/ RedisReconnect
    \/ RedisRetry

SpecRedis == Init /\ [][NextRedis]_vars

\* C31: an operation routed through _execute_with_retry returns a failure
\* value instead of raising, whatever fails in the operation and in the
\* reconnection it triggers, and runs the operation at most twice, the
\* second time only after a connection or timeout error.
C31_CacheNeverRaises ==
    /\ rclient.executions <= 2
    /\ rclient.pc = "retry" => rclient.last_error \in {"ConnectionError", "TimeoutError"}
    /\ rclient.pc = "done" =>
          /\ rclient.out.tag = "value"
          /\ rclient.last_error # "ok" => rclient.out.v \in {"None", "False", "0"}

\* C32: the wait before call attempt k (k >= 2) is 2^(k-2) seconds, and
\* every wait is followed by a call attempt: an invocation that made n
\* attempts has waited exactly n-1 times.
C32_BackoffSchedule ==
    ApiRunning =>
       /\ \A k \in 2..(Len(api.waits) + 1) : api.waits[k - 1] = 2 ^ (k - 2)
       /\ api.node = "END" => Len(api.waits) = Len(api.attempts) - 1

\* C33: in every entity_features row, for each of the four stages the
\* completion timestamp is set if and only if the completion flag is true,
\* after any sequence of save_entity_feature calls.
C33_TimestampIffCompleted ==
    \A sid \in Sessions :
       features[sid] # NoRow =>
          \A f \in Features :
             (features[sid][FeatureTimestamp(f)] # NULL) <=> features[sid][FeatureColumn(f)]

C33_Witness ==
    /\ feat_call.ret = "True"
    /\ features[feat_call.sid] # NoRow
    /\ features[feat_call.sid].kyc_completed
    /\ features[feat_call.sid].kyc_completed_at # NULL
    /\ ~features[feat_call.sid].signup_completed
    /\ features[feat_call.sid].signup_completed_at = NULL

WasCompleted(row, column) == row # NoRow /\ row[column]

\* What one step may do to the row of a session, given the call recorded
\* by the step
OnlyAdds(old, new, call) ==
    /\ new # old => (call.ret = "True" /\ new # NoRow)
    /\ (old # NoRow /\ new # NoRow) =>
          \A c \in EntityFields : call.args[c] = "None" => new[c] = old[c]
    /\ new # NoRow =>
          /\ \A f \in Features :
                /\ WasCompleted(old, FeatureColumn(f)) => new[FeatureColumn(f)]
                /\ (new[FeatureColumn(f)] /\ ~WasCompleted(old, FeatureColumn(f))) =>
                      call.feature = f
          /\ WasCompleted(old, "onboarding_completed") => new.onboarding_completed

\* C39: a save_entity_feature call leaves entity_id, user_email, user_phone
\* and organization_name unchanged when the argument is omitted, sets at
\* most the completion flag of the named feature (none for an unknown
\* name), never resets a completion flag or onboarding_completed, and
\* leaves the record unchanged when it fails.
C39_OnlyAdds ==
    [][\A sid \in Sessions :
          /\ OnlyAdds(features[sid], features'[sid], feat_call')
          /\ features'[sid] # features[sid] => feat_call'.sid = sid]_vars

C39_Witness ==
    /\ feat_call.ret = "True"
    /\ feat_call.feature = "kyc"
    /\ feat_call.args.entity_id = "None"
    /\ features[feat_call.sid] # NoRow
    /\ features[feat_call.sid].entity_id = "E1"
    /\ features[feat_call.sid].signup_completed
    /\ features[feat_call.sid].kyc_completed

----------------------------------------------------------------------------
(* The session_id carried by a stored record                               *)

\* C34: the session_id stored in a session's record is immutable: whatever
\* save_state and update_state calls are made for a session key, the
\* record keeps the session_id it was created with.
C34_SessionIdImmutable ==
    [][\A s \in Sessions :
          ( /\ db[s] # NoRow
            /\ db'[s] # NoRow
            /\ Has(db[s].state_data, "session_id") )
          => ( /\ Has(db'[s].state_data, "session_id")
               /\ db'[s].state_data.session_id = db[s].state_data.session_id )]_vars

----------------------------------------------------------------------------
(* The supervisor without an advisory signal                               *)

\* C35: with an empty advisory text (what _call_llm returns after all its
\* attempts failed) the supervisor selects by the flags alone: signup if
\* signup is incomplete, else company, else kyc, else bank, else complete;
\* it never selects end.
C35_EmptySignalFlagRule ==
    (last_node = AGENT_SUPERVISOR /\ llm_decision = {}) =>
       /\ next_agent = FlagRule(signup_complete, company_complete,
                                kyc_complete, bank_complete)
       /\ next_agent # AGENT_END

C35_Witness ==
    /\ last_node = AGENT_SUPERVISOR
    /\ llm_decision = {}
    /\ signup_complete /\ company_complete /\ ~kyc_complete
    /\ next_agent = AGENT_KYC

----------------------------------------------------------------------------
(* The outcomes of process_onboarding                                      *)

\* C36: process_onboarding returns one of two results and never raises:
\* status completed if and only if the complete node executed in the run,
\* status error otherwise; status in_progress is never returned.
C36_TwoOutcomes ==
    pc = "returned" =>
       /\ result.status \in {STATUS_COMPLETED, STATUS_ERROR}
       /\ (result.status = STATUS_COMPLETED) <=> (last_node = AGENT_COMPLETE)
       /\ (last_node = AGENT_COMPLETE) <=> task_complete
       /\ (result.status = STATUS_ERROR) => (node # END /\ ~task_complete)

C36_Witness ==
    /\ pc = "returned"
    /\ result.status = STATUS_ERROR
    /\ result.error = "GraphRecursionError"
    /\ signup_complete
    /\ ~task_complete

----------------------------------------------------------------------------
(* Concurrent save_state, load_state and delete_state on one session       *)

NextCoherence ==
    \E c \in AllCallers :
       \/ SaveCall(c, MgrSessions, MaxRaceCalls)
       \/ SaveTxn(c)
       \/ SaveCacheAndPublish(c)
       \/ LoadCall(c, MgrSessions, MaxRaceCalls)
       \/ LoadDbRead(c)
       \/ LoadCacheFill(c)
       \/ DeleteCall(c, MgrSessions, MaxRaceCalls)
       \/ DeleteEvict(c)

SpecCoherence == InitConcurrent /\ [][NextCoherence]_vars

CacheFailures == {"cache_fail", "cache_evict_fail", "cache_error"}

\* Every call made so far has finished and none of its cache operations
\* failed (each caller made at most one call, so its log is the whole
\* history).
QuietAndCached ==
    /\ cache_enabled
    /\ \A c \in AllCallers :
          /\ calls[c].pc = "idle"
          /\ calls[c].n <= 1
          /\ ~InLog(calls[c], CacheFailures)

\* C37: with the cache enabled and every cache operation succeeding, once
\* all concurrent save_state, load_state and delete_state calls on a
\* session have finished, the session's cache entry is absent or equal to
\* the durable record.
C37_CacheCoherent ==
    QuietAndCached =>
       \A s \in Sessions :
          \/ cache[s] = NoRow
          \/ /\ db[s] # NoRow
             /\ cache[s] \in {db[s].state_data, Migrate(db[s].state_data)}

\* ------------------------------------------------------------------------
\* Use outside the initialized lifetime of the manager
\* ------------------------------------------------------------------------

\* One caller using the four operations over the whole life of the manager:
\* before initialize, between initialize and close, after close, and after
\* a later initialize
NextLifecycle ==
    \/ Initialize
    \/ Close
    \/ SaveCall("c1", MgrSessions, MaxCalls)
    \/ SaveTxn("c1")
    \/ SaveCacheAndPublish("c1")
    \/ LoadCall("c1", MgrSessions, MaxCalls)
    \/ UpdateCall("c1", MgrSessions, MaxCalls)
    \/ LoadDbRead("c1")
    \/ LoadCacheFill("c1")
    \/ DeleteCall("c1", MgrSessions, MaxCalls)
    \/ DeleteEvict("c1")

SpecLifecycle == InitMgr /\ [][NextLifecycle]_vars

\* What a call made without a pool comes back with
UninitializedReturn(op) == IF op = "update" THEN Ret("False") ELSE Ret("RuntimeError")

\* A call made while there is no pool ends in the same step, with its
\* exception or its False, and the step leaves both stores alone
UninitializedCallStep(c) ==
    (~pool /\ calls[c].pc = "idle" /\ calls'[c] # calls[c])
        => /\ calls'[c].pc = "idle"
           /\ calls'[c].ret = UninitializedReturn(calls'[c].op)
           /\ UNCHANGED <<db, chat_sessions, cache, published>>

\* A step taken while there is a pool, and that keeps it, keeps the flags
SecondInitializeStep ==
    (pool /\ pool') => UNCHANGED <<cache_enabled, pubsub_enabled>>

\* C38: save_state, load_state and delete_state called before initialize or
\* after close raise RuntimeError and update_state returns False, the
\* durable store and the cache being left as they were; initialize called
\* on an initialized manager changes neither the pool nor the cache flags.
C38_UninitializedUseChangesNothing ==
    [][ /\ \A c \in AllCallers : UninitializedCallStep(c)
        /\ (pool /\ Initialize) => UNCHANGED <<pool, cache_enabled, pubsub_enabled>>
        /\ SecondInitializeStep ]_vars

\* After a close that left a stored, cached session behind with the cache
\* flag still set, a load has raised RuntimeError
C38_Witness ==
    /\ ~pool
    /\ cache_enabled
    /\ \E s \in MgrSessions : db[s] # NoRow /\ cache[s] # NoRow
    /\ calls["c1"].op = "load"
    /\ calls["c1"].pc = "idle"
    /\ calls["c1"].ret = Ret("RuntimeError")

============================================================================
